---- MODULE Spec2Model ----
(***************************************************************************)
(* playlistItemStatisticsFile (YUView): the statistics file header reader, *)
(* the background pass that indexes the start offset of every (POC, type)  *)
(* pair, the on-demand loader that fills the two statistics caches, and    *)
(* reloadItemSource.  A file is a sequence of characters; lines are parsed *)
(* by parseCSVLine as the code parses them.                                *)
(***************************************************************************)
EXTENDS Integers, Sequences, FiniteSets, TLC

\* ------------------------------------------------------------------ bounds
\* Most body lines of an input file.
MaxLines == 3
\* The POCs of body lines are 0..MaxPOC.
MaxPOC == 1
\* The read buffer of the indexing pass, scaled down from 1 MiB so that a
\* file spans several chunks and lines straddle chunk boundaries.
STAT_PARSING_BUFFER_SIZE == 32
\* Most calls of reloadItemSource in one behaviour.
MaxReloads == 1
\* Most calls of loadStatisticToCache in one behaviour.
MaxLoads == 2

INT_INVALID == -1

\* ------------------------------------------------------------ text helpers
NL == "\n"
Digits == <<"0", "1", "2", "3", "4", "5", "6", "7", "8", "9">>
Whitespace == {" ", "\n", "\t", "\r"}

IsDigit(c) == \E k \in 1..10 : Digits[k] = c
DigitVal(c) == (CHOOSE k \in 1..10 : Digits[k] = c) - 1

SetMin(S) == CHOOSE x \in S : \A y \in S : x <= y
SetMax(S) == CHOOSE x \in S : \A y \in S : x >= y

RECURSIVE DecVal(_)
DecVal(s) ==
  IF s = <<>> THEN 0
  ELSE DecVal(SubSeq(s, 1, Len(s) - 1)) * 10 + DigitVal(s[Len(s)])

\* QString::toInt: the value of an optionally signed decimal, 0 when the
\* text is no number.
toInt(s) ==
  LET neg == Len(s) > 0 /\ s[1] = "-"
      body == IF neg THEN Tail(s) ELSE s
  IN IF Len(body) = 0 \/ \E k \in 1..Len(body) : ~IsDigit(body[k])
     THEN 0
     ELSE IF neg THEN 0 - DecVal(body) ELSE DecVal(body)

\* QString::toUInt: 0 when the text is no number without sign
toUInt(s) == IF Len(s) > 0 /\ s[1] = "-" THEN 0 ELSE toInt(s)

\* QString::trimmed
Trimmed(s) ==
  LET keep == {k \in 1..Len(s) : s[k] \notin Whitespace}
  IN IF keep = {} THEN <<>> ELSE SubSeq(s, SetMin(keep), SetMax(keep))

\* QString::remove(' ')
IsNoSpace(c) == c # " "
RemoveSpaces(s) == SelectSeq(s, IsNoSpace)

\* QString::split: always at least one field
RECURSIVE Split(_, _)
Split(s, d) ==
  LET ks == {k \in 1..Len(s) : s[k] = d}
  IN IF ks = {} THEN <<s>>
     ELSE <<SubSeq(s, 1, SetMin(ks) - 1)>>
          \o (CHOOSE list \in {Split(rest, d) :
                  rest \in {SubSeq(s, SetMin(ks) + 1, Len(s))}} : TRUE)

parseCSVLine(srcLine, delimiter) ==
  CHOOSE list \in {Split(line, delimiter) :
                     line \in {RemoveSpaces(Trimmed(srcLine))}} : TRUE

\* rowItemList[k] of the code (0-based)
Field(rowItemList, k) == rowItemList[k + 1]
\* rowItemList.count()
Count(rowItemList) == Len(rowItemList)

\* ------------------------------------------------- writing the input files
RECURSIVE Num(_)
Num(n) ==
  IF n < 10 THEN <<Digits[n + 1]>>
  ELSE Num(n \div 10) \o <<Digits[(n % 10) + 1]>>

RECURSIVE Join(_)
Join(fields) ==
  IF Len(fields) = 0 THEN <<>>
  ELSE IF Len(fields) = 1 THEN fields[1]
  ELSE fields[1] \o <<";">> \o Join(Tail(fields))

RECURSIVE Flatten(_)
Flatten(lines) ==
  IF lines = <<>> THEN <<>> ELSE lines[1] \o <<NL>> \o Flatten(Tail(lines))

W_type == <<"t", "y", "p", "e">>
W_map == <<"m", "a", "p">>
W_range == <<"r", "a", "n", "g", "e">>
W_vector == <<"v", "e", "c", "t", "o", "r">>
W_line == <<"l", "i", "n", "e">>

\* "%;type;<id>;<name>;<kind>" and the same without the kind field
TypeRecord(id, name, kind) == Join(<<<<"%">>, W_type, Num(id), name, kind>>)
TypeRecord4(id, name) == Join(<<<<"%">>, W_type, Num(id), name>>)

\* "POC;posX;posY;width;height;typeID;value" and the 2-value vector record
ValueLine(poc, type) ==
  Join(<<Num(poc), Num(0), Num(0), Num(4), Num(4), Num(type), Num(5)>>)
VectorLine(poc, type) ==
  Join(<<Num(poc), Num(0), Num(0), Num(4), Num(4), Num(type), Num(1), Num(2)>>)
\* A record of the type for the block of w x h at (x, y).
BlockLine(poc, x, y, w, h, type) ==
  Join(<<Num(poc), Num(x), Num(y), Num(w), Num(h), Num(type)>>
       \o (IF type = 2 THEN <<Num(1), Num(2)>> ELSE <<Num(5)>>))
\* "%;seq-specs;<name>;<layer>;<width>;<height>;<rate>"
SeqSpecsRecord(w, h) ==
  Join(<<<<"%">>, <<"s", "e", "q", "-", "s", "p", "e", "c", "s">>, <<"a">>,
         Num(0), Num(w), Num(h), Num(1)>>)
\* the record of a line, with the two values of each end point
LineLine(poc, type) ==
  Join(<<Num(poc), Num(0), Num(0), Num(4), Num(4), Num(type),
         Num(1), Num(2), Num(3), Num(4)>>)

\* Type 1 is declared with value data, type 2 with vector data.
Types == {1, 2}
DataLine(poc, type) ==
  IF type = 2 THEN VectorLine(poc, type) ELSE ValueLine(poc, type)

StdHeader ==
  <<TypeRecord(1, <<"a">>, W_map), TypeRecord(2, <<"b">>, W_vector)>>

SeqsUpTo(S, n) == UNION {[1..k -> S] : k \in 0..n}

\* A file: the header, body lines, and a last line that may lack its newline.
WithoutLastNL(bytes) ==
  IF Len(bytes) > 0 /\ bytes[Len(bytes)] = NL
  THEN SubSeq(bytes, 1, Len(bytes) - 1) ELSE bytes
FilesOf(header, bodies) ==
  LET whole == {Flatten(header \o b) : b \in bodies}
  IN whole \cup {WithoutLastNL(f) : f \in whole}

\* ------------------------------------------------------------------- state
VARIABLES
  fileBytes,                \* the statistics file on disk
  parsingBufferSize,        \* STAT_PARSING_BUFFER_SIZE of the build
  mpc,                      \* where the owning (main) thread is
  filePos,                  \* read position of the member handle 'file'
  typeParsingActive, aType, \* locals of readHeaderFromFile
  statsTypeList,            \* the types given to statSource.addStatType, in order
  statFrameSize,            \* statSource.statFrameSize
  parsingError,
  fileSortedByPOC,
  maxPOC,
  backgroundParserProgress, \* <<numerator, denominator>> of the percentage
  blockOutsideOfFrame_idx,
  startEndFrame,            \* the range published by setStartEndFrame
  pocTypeStartList,         \* POC -> (typeID -> byte offset)
  statsCache,               \* statSource.statsCache: typeID -> statisticsData
  chartCache,               \* chartStatSource.statsCache
  cancelBackgroundParser,
  backgroundParserFuture,   \* the pass the future refers to, 0 for none
  pass,                     \* locals of each run of the indexing pass
  mLockStatAccess,          \* holder of the mutex: "none" or "loader"
  lpc, lFrame, lType, inPos,\* locals of loadStatisticToCache
  crashed,                  \* an out-of-range or null access has happened
  nReloads, nLoads,         \* calls made so far
  chartCall,                \* the call of sortAndCategorizeData(ByRange) under way
  hist                      \* observations the properties refer to

vars ==
  <<fileBytes, parsingBufferSize, mpc, filePos, typeParsingActive, aType, statsTypeList,
    statFrameSize, parsingError, fileSortedByPOC, maxPOC,
    backgroundParserProgress, blockOutsideOfFrame_idx, startEndFrame,
    pocTypeStartList, statsCache, chartCache, cancelBackgroundParser,
    backgroundParserFuture, pass, mLockStatAccess, lpc, lFrame, lType, inPos,
    crashed, nReloads, nLoads, chartCall, hist>>

headerVars == <<filePos, typeParsingActive, aType, statsTypeList, statFrameSize>>
indexVars == <<fileSortedByPOC, maxPOC, backgroundParserProgress, pocTypeStartList>>
loaderVars == <<mLockStatAccess, lpc, lFrame, lType, inPos, nLoads>>
cacheVars == <<statsCache, chartCache, blockOutsideOfFrame_idx>>

Passes == 1..(MaxReloads + 1)
EmptyMap == <<>>
NoError == ""

\* ---------------------------------------------------- readHeaderFromFile
\* StatisticsType(): a type as default constructed
NewStatisticsType ==
  [typeID |-> INT_INVALID, typeName |-> <<>>,
   hasValueData |-> FALSE, hasVectorData |-> FALSE,
   renderValueData |-> FALSE, renderVectorData |-> FALSE,
   arrowHead |-> "arrow", colMapper |-> "none", vectorPen |-> "default",
   gridPen |-> "default", vectorScale |-> 1, scaleValueToBlockSize |-> FALSE]

\* file.atEnd() and file.readLine(): the line at pos with its newline
AtEnd(pos) == pos >= Len(fileBytes)
LineEnd(pos) ==
  LET nls == {k \in (pos + 1)..Len(fileBytes) : fileBytes[k] = NL}
  IN IF nls = {} THEN Len(fileBytes) ELSE SetMin(nls)
ReadLine(pos) == SubSeq(fileBytes, pos + 1, LineEnd(pos))

W_mapColor == <<"m", "a", "p", "C", "o", "l", "o", "r">>
W_defaultRange == <<"d", "e", "f", "a", "u", "l", "t", "R", "a", "n", "g", "e">>
W_vectorColor == <<"v", "e", "c", "t", "o", "r", "C", "o", "l", "o", "r">>
W_gridColor == <<"g", "r", "i", "d", "C", "o", "l", "o", "r">>
W_scaleFactor == <<"s", "c", "a", "l", "e", "F", "a", "c", "t", "o", "r">>
W_scaleToBlockSize ==
  <<"s", "c", "a", "l", "e", "T", "o", "B", "l", "o", "c", "k", "S", "i", "z", "e">>
W_seqSpecs == <<"s", "e", "q", "-", "s", "p", "e", "c", "s">>

\* The highest field index a header record of this kind reads.
HeaderLastFieldRead(rowItemList) ==
  LET kind == Field(rowItemList, 1)
  IN CASE kind = W_type -> 3
       [] kind = W_mapColor -> 6
       [] kind = W_range -> 11
       [] kind = W_defaultRange -> 4
       [] kind = W_vectorColor -> 5
       [] kind = W_gridColor -> 4
       [] kind = W_scaleFactor -> 2
       [] kind = W_scaleToBlockSize -> 2
       [] kind = W_seqSpecs -> 6
       [] OTHER -> 1

\* The "type" record: lines 348-368
ParseTypeRecord(t, rowItemList) ==
  LET kind == IF Count(rowItemList) >= 5 THEN Field(rowItemList, 4) ELSE <<>>
      isValue == kind = W_map \/ kind = W_range
      isVector == ~isValue /\ (kind = W_vector \/ kind = W_line)
  IN [t EXCEPT
        !.typeID = toInt(Field(rowItemList, 2)),
        !.typeName = Field(rowItemList, 3),
        !.hasValueData = IF isValue THEN TRUE ELSE @,
        !.renderValueData = IF isValue THEN TRUE ELSE @,
        !.hasVectorData = IF isVector THEN TRUE ELSE @,
        !.renderVectorData = IF isVector THEN TRUE ELSE @,
        !.arrowHead = IF isVector /\ kind = W_line THEN "none" ELSE @]

\* The other directives of a type: lines 370-434
ParseDirective(t, rowItemList) ==
  LET kind == Field(rowItemList, 1)
  IN CASE kind = W_mapColor -> [t EXCEPT !.colMapper = "map"]
       [] kind = W_range -> [t EXCEPT !.colMapper = "range"]
       [] kind = W_defaultRange -> [t EXCEPT !.colMapper = "defaultRange"]
       [] kind = W_vectorColor -> [t EXCEPT !.vectorPen = "set"]
       [] kind = W_gridColor -> [t EXCEPT !.gridPen = "set"]
       [] kind = W_scaleFactor ->
            [t EXCEPT !.vectorScale = toInt(Field(rowItemList, 2))]
       [] kind = W_scaleToBlockSize ->
            [t EXCEPT !.scaleValueToBlockSize = (Field(rowItemList, 2) = <<"1">>)]
       [] OTHER -> t

\* "seq-specs": lines 435-447
ParseSeqSpecs(size, rowItemList) ==
  LET width == toInt(Field(rowItemList, 4))
      height == toInt(Field(rowItemList, 5))
  IN IF Field(rowItemList, 1) = W_seqSpecs /\ width > 0 /\ height > 0
     THEN <<width, height>> ELSE size

\* A record that is no header record: its first character is not '%'.
IsNotHeader(rowItemList) == Field(rowItemList, 0)[1] # "%"

\* Faulty variant: only a line which is not header finishes the open type.
FinishesOnDataOnly(rowItemList, active) == IsNotHeader(rowItemList) /\ active

\* A new type or a line which is not header finishes the open type: line 331
FinishesType(rowItemList, active) ==
  (Field(rowItemList, 1) = W_type \/ IsNotHeader(rowItemList)) /\ active

\* What a read of rowItemList[k] with k >= rowItemList.count() can give. The
\* code does not check the count: a build with assertions stops in
\* QList::operator[], a build without them goes on with whatever the read
\* returns, here an empty text or a number.
GarbageFields == {<<>>, <<"1">>}
PadTo(rowItemList, n, g) ==
  IF Count(rowItemList) >= n THEN rowItemList
  ELSE rowItemList \o [k \in 1..(n - Count(rowItemList)) |-> g]

\* The record as line 331 sees it: rowItemList[1] is read of every record
\* whose first field is not empty.
HeaderKindFields(raw, g) == IF Count(raw) < 2 THEN PadTo(raw, 2, g) ELSE raw

\* The iteration returns at line 342 and reads no further field.
HeaderStopsAt(fields, active) == FinishesType(fields, active) /\ IsNotHeader(fields)

\* The iteration reads a field the record does not have.
HeaderReadsBeyond(raw, active) ==
  /\ Field(raw, 0) # <<>>
  /\ \/ Count(raw) < 2
     \/ /\ ~HeaderStopsAt(raw, active)
        /\ HeaderLastFieldRead(raw) >= Count(raw)

\* The record with every field the iteration reads.
HeaderFields(raw, active, g) ==
  LET fields == HeaderKindFields(raw, g)
  IN IF Field(raw, 0) = <<>> \/ HeaderStopsAt(fields, active) THEN fields
     ELSE PadTo(fields, HeaderLastFieldRead(fields) + 1, g)

\* One iteration of the while loop of readHeaderFromFile (lines 318-448),
\* and the return when the file is at its end.
HeaderLine ==
  /\ mpc = "header"
  /\ ~crashed
  /\ IF AtEnd(filePos)
     THEN /\ mpc' = "start"
          /\ UNCHANGED <<headerVars, crashed, hist>>
     ELSE \E raw \in {parseCSVLine(ReadLine(filePos), ";")} :
          \E beyond \in {HeaderReadsBeyond(raw, typeParsingActive)} :
          \E g \in (IF beyond THEN GarbageFields ELSE {<<>>}) :
          \E stops \in (IF beyond THEN BOOLEAN ELSE {FALSE}) :
          LET rowItemList == HeaderFields(raw, typeParsingActive, g)
              finishes == FinishesType(rowItemList, typeParsingActive)
              open == IF finishes THEN NewStatisticsType ELSE aType
          IN /\ filePos' = LineEnd(filePos)
             /\ hist' = [hist EXCEPT !.headerReadBeyond = @ \/ beyond]
             /\ IF Field(rowItemList, 0) = <<>>
                THEN UNCHANGED <<mpc, typeParsingActive, aType, statsTypeList,
                                 statFrameSize, crashed>>
                ELSE IF stops /\ Count(raw) < 2
                THEN \* rowItemList[1] is read out of range at line 331
                     /\ crashed' = TRUE
                     /\ UNCHANGED <<mpc, typeParsingActive, aType,
                                    statsTypeList, statFrameSize>>
                ELSE IF finishes /\ IsNotHeader(rowItemList)
                THEN \* lines 334-343: store the type and stop
                     /\ statsTypeList' = Append(statsTypeList, aType)
                     /\ aType' = NewStatisticsType
                     /\ typeParsingActive' = FALSE
                     /\ mpc' = "start"
                     /\ UNCHANGED <<statFrameSize, crashed>>
                ELSE IF stops
                THEN \* a field is read out of range in lines 345-447
                     /\ crashed' = TRUE
                     /\ statsTypeList' =
                          IF finishes THEN Append(statsTypeList, aType)
                          ELSE statsTypeList
                     /\ UNCHANGED <<mpc, typeParsingActive, aType, statFrameSize>>
                ELSE /\ statsTypeList' =
                          IF finishes THEN Append(statsTypeList, aType)
                          ELSE statsTypeList
                     /\ IF Field(rowItemList, 1) = W_type
                        THEN /\ aType' = ParseTypeRecord(open, rowItemList)
                             /\ typeParsingActive' = TRUE
                        ELSE /\ aType' = ParseDirective(open, rowItemList)
                             /\ typeParsingActive' =
                                  IF finishes THEN FALSE ELSE typeParsingActive
                     /\ statFrameSize' = ParseSeqSpecs(statFrameSize, rowItemList)
                     /\ UNCHANGED <<mpc, crashed>>
  /\ UNCHANGED <<fileBytes, parsingBufferSize, chartCall, parsingError, indexVars, blockOutsideOfFrame_idx,
                 startEndFrame, statsCache, chartCache, cancelBackgroundParser,
                 backgroundParserFuture, pass, loaderVars, nReloads>>

\* --------------------------------------------- what the input file holds
\* The lines of the file in order: where each starts, its text without the
\* newline, and whether a newline ends it.
RECURSIVE LinesFrom(_, _)
LinesFrom(bytes, pos) ==
  IF pos >= Len(bytes) THEN <<>>
  ELSE LET nls == {k \in (pos + 1)..Len(bytes) : bytes[k] = NL}
           e == IF nls = {} THEN Len(bytes) ELSE SetMin(nls)
           term == nls # {}
       IN <<[start |-> pos,
             text |-> SubSeq(bytes, pos + 1, IF term THEN e - 1 ELSE e),
             term |-> term]>> \o LinesFrom(bytes, e)

IsDataText(text) ==
  LET row == parseCSVLine(text, ";")
  IN row[1] # <<>> /\ row[1][1] # "%"
IsDataLineRec(l) == IsDataText(l.text)

\* The data lines of the file: POC, typeID, start offset, newline-terminated.
DataRecOf(l) ==
  LET row == parseCSVLine(l.text, ";")
  IN [poc |-> toInt(row[1]),
      type |-> IF Len(row) >= 6 THEN toInt(row[6]) ELSE INT_INVALID,
      block |-> IF Len(row) >= 5
                THEN <<toInt(row[2]), toInt(row[3]), toUInt(row[4]), toUInt(row[5])>>
                ELSE <<0, 0, 0, 0>>,
      value |-> IF Len(row) >= 8 THEN <<toInt(row[7]), toInt(row[8])>>
                ELSE IF Len(row) >= 7 THEN <<toInt(row[7])>> ELSE <<>>,
      start |-> l.start,
      term |-> l.term]
RECURSIVE DataRecsOf(_)
DataRecsOf(ls) ==
  IF ls = <<>> THEN <<>>
  ELSE <<DataRecOf(Head(ls))>> \o DataRecsOf(Tail(ls))
FileDataRecs == DataRecsOf(SelectSeq(LinesFrom(fileBytes, 0), IsDataLineRec))
\* They are worked out once, when the file is chosen, and kept in hist.
DataRecs == hist.recs
IsTerminated(r) == r.term
TerminatedRecs == SelectSeq(DataRecs, IsTerminated)

\* ------------------------------------ readFrameAndTypePositionsFromFile
NewPass ==
  [pc |-> "loop", fileAtEnd |-> FALSE, bufferStartPos |-> 0, bufferSize |-> 0,
   i |-> 0, lineBuffer |-> <<>>, lineBufferStartPos |-> 0,
   lastPOC |-> INT_INVALID, lastType |-> INT_INVALID, sortingFixed |-> FALSE]
IdlePass == [NewPass EXCEPT !.pc = "unused"]

\* QFuture::isRunning of backgroundParserFuture
FutureIsRunning ==
  backgroundParserFuture # 0 /\ pass[backgroundParserFuture].pc # "done"

\* pocTypeStartList.contains(poc) && pocTypeStartList[poc].contains(typeID)
HasEntry(index, poc, typeID) ==
  poc \in DOMAIN index /\ typeID \in DOMAIN index[poc]

\* pocTypeStartList[poc][typeID] = pos
PutEntry(index, poc, typeID, pos) ==
  LET inner == IF poc \in DOMAIN index THEN index[poc] ELSE EmptyMap
      innerNew == [t \in DOMAIN inner \cup {typeID} |->
                     IF t = typeID THEN pos ELSE inner[t]]
  IN [q \in DOMAIN index \cup {poc} |-> IF q = poc THEN innerNew ELSE index[q]]

ErrInterleaved ==
  "Error while parsing meta data: The data for each POC must be continuous in an interleaved statistics file->"
ErrSequential ==
  "Error while parsing meta data: The data for each typeID must be continuous in an non interleaved statistics file->"

\* line 185
IsFirstLine(lastType, lastPOC) == lastType = -1 /\ lastPOC = -1
\* line 200
IsTypeChange(typeID, poc, lastType, lastPOC) == typeID # lastType /\ poc = lastPOC
\* line 222
IsPOCChange(poc, lastPOC) == poc # lastPOC
\* Faulty variant: every type change stores its position.
StoreOnEveryTypeChange(index, poc, typeID) == TRUE
\* line 214: a start position is stored for the first occurrence only
StoreOnTypeChange(index, poc, typeID) == ~(typeID \in DOMAIN index[poc])
\* Faulty variant: the interleaved layout is not checked.
InterleavedUnchecked(index, poc) == FALSE
\* line 232
InterleavedViolation(index, poc) == poc \in DOMAIN index
\* Faulty variant: Sequential mode accepts a pair that returns.
SequentialUnchecked(index, poc, typeID) == FALSE

\* Faulty variant: the POC and the typeID are looked up the wrong way round.
SequentialViolationSwapped(index, poc, typeID) ==
  typeID \in DOMAIN index /\ poc \in DOMAIN index[typeID]
\* line 239
SequentialViolation(index, poc, typeID) ==
  poc \in DOMAIN index /\ typeID \in DOMAIN index[poc]

\* Line 183 reads rowItemList[5] of a line that is not empty and no header
\* record, whatever its count.
BodyReadsBeyond(raw) ==
  /\ Field(raw, 0) # <<>>
  /\ Field(raw, 0)[1] # "%"
  /\ Count(raw) < 6

\* The line as the pass sees it: as it is when all fields read are there or
\* when the read out of range stops the program, and with the fields the
\* read out of range returns otherwise.
IndexerFields(raw) ==
  IF BodyReadsBeyond(raw)
  THEN {raw} \cup {PadTo(raw, 6, g) : g \in GarbageFields}
  ELSE {raw}

\* The body of "if (lineBuffer.size() > 0)" for one data line (lines 176-258):
\* what the pass p writes when it has read a whole line and parseCSVLine
\* has given rowItemList.
ProcessLineOn(same, pos, rowItemList) ==
  LET poc == toInt(Field(rowItemList, 0))
      typeID == toInt(Field(rowItemList, 5))
  IN IF Field(rowItemList, 0) = <<>> \/ Field(rowItemList, 0)[1] = "%"
     THEN same
     ELSE IF Count(rowItemList) < 6
     THEN [same EXCEPT !.outcome = "range"]
     ELSE IF IsFirstLine(same.lastType, same.lastPOC)
     THEN [same EXCEPT
             !.index = PutEntry(same.index, poc, typeID, pos),
             !.lastType = typeID, !.lastPOC = poc,
             !.maxPOC = IF poc > same.maxPOC THEN poc ELSE same.maxPOC]
     ELSE IF IsTypeChange(typeID, poc, same.lastType, same.lastPOC)
     THEN [same EXCEPT
             !.sorted = IF ~same.sortingFixed THEN TRUE ELSE same.sorted,
             !.sortingFixed = TRUE,
             !.lastType = typeID,
             !.index = IF StoreOnTypeChange(same.index, poc, typeID)
                       THEN PutEntry(same.index, poc, typeID, pos)
                       ELSE same.index]
     ELSE IF IsPOCChange(poc, same.lastPOC)
     THEN IF same.sorted /\ InterleavedViolation(same.index, poc)
          THEN [same EXCEPT !.outcome = "throw", !.sortingFixed = TRUE,
                            !.error = ErrInterleaved]
          ELSE IF ~same.sorted /\ SequentialViolation(same.index, poc, typeID)
          THEN [same EXCEPT !.outcome = "throw", !.sortingFixed = TRUE,
                            !.error = ErrSequential]
          ELSE [same EXCEPT
                  !.sortingFixed = TRUE,
                  !.lastPOC = poc, !.lastType = typeID,
                  !.index = PutEntry(same.index, poc, typeID, pos),
                  !.maxPOC = IF poc > same.maxPOC THEN poc ELSE same.maxPOC,
                  !.progress = <<pos * 100, same.fileSize>>]
     ELSE same

\* The same for the pass p, on the members of the item and the locals of
\* the pass as they are.
ProcessLine(p, rowItemList) ==
  ProcessLineOn([outcome |-> "ok", lastPOC |-> pass[p].lastPOC,
                 lastType |-> pass[p].lastType,
                 sortingFixed |-> pass[p].sortingFixed,
                 index |-> pocTypeStartList, sorted |-> fileSortedByPOC,
                 maxPOC |-> maxPOC, progress |-> backgroundParserProgress,
                 error |-> parsingError, fileSize |-> Len(fileBytes)],
                pass[p].lineBufferStartPos, rowItemList)

\* Faulty variant: the loop does not look at cancelBackgroundParser.
LoopUntilFileEnd(p) == ~pass[p].fileAtEnd

\* The condition of the while loop: line 157
LoopCondition(p) == ~pass[p].fileAtEnd /\ ~cancelBackgroundParser

\* Faulty variant: the start of the next line is taken to be the newline itself.
NextLineStartAtNewline(bufferStartPos, i) == bufferStartPos + i

\* Faulty variant: the start of the next line is counted within the chunk.
NextLineStartInChunk(bufferStartPos, i) == i + 1

\* Where the line after the newline at index i of the chunk starts: line 262
NextLineStart(bufferStartPos, i) == bufferStartPos + i + 1

\* inputBuffer.at(k) of the chunk the pass p holds
BufferAt(p, k) == fileBytes[pass[p].bufferStartPos + k + 1]

\* The head of the while loop with its condition true (lines 157-164):
\* the next chunk is read.
IdxReadChunk(p) ==
  /\ pass[p].pc = "loop"
  /\ ~crashed
  /\ LoopCondition(p)
  /\ LET rest == Len(fileBytes) - pass[p].bufferStartPos
         bufferSize == IF rest < parsingBufferSize
                       THEN rest ELSE parsingBufferSize
     IN pass' = [pass EXCEPT ![p].bufferSize = bufferSize,
                             ![p].fileAtEnd = bufferSize < parsingBufferSize,
                             ![p].i = 0,
                             ![p].pc = "scan"]
  /\ hist' = [hist EXCEPT !.chunksAfterCancel =
                 IF hist.cancelSeen[p] THEN @ + 1 ELSE @]
  /\ UNCHANGED <<fileBytes, parsingBufferSize, chartCall, mpc, headerVars, parsingError, indexVars, cacheVars,
                 startEndFrame, cancelBackgroundParser, backgroundParserFuture,
                 loaderVars, crashed, nReloads>>

\* The data line at offset pos has another POC than the data line before it
\* and, with the layout flag being 'sorted', its (POC, typeID) pair or its POC
\* is in the index already.
DataLineAt(pos) == CHOOSE k \in 1..Len(DataRecs) : DataRecs[k].start = pos
ChangesPOC(pos) ==
  /\ \E k \in 1..Len(DataRecs) : DataRecs[k].start = pos
  /\ DataLineAt(pos) > 1
  /\ DataRecs[DataLineAt(pos)].poc # DataRecs[DataLineAt(pos) - 1].poc
RepeatsPair(pos, sorted) ==
  /\ fileSortedByPOC = sorted
  /\ ChangesPOC(pos)
  /\ HasEntry(pocTypeStartList, DataRecs[DataLineAt(pos)].poc,
              DataRecs[DataLineAt(pos)].type)
RepeatsPOC(pos, sorted) ==
  /\ fileSortedByPOC = sorted
  /\ ChangesPOC(pos)
  /\ DataRecs[DataLineAt(pos)].poc \in DOMAIN pocTypeStartList

\* The data line at offset pos breaks the continuity of the layout the pass
\* has found so far.
BreaksContinuity(pos) == RepeatsPair(pos, FALSE) \/ RepeatsPOC(pos, TRUE)

\* The for loop of lines 166-267 from position i up to and including the
\* next newline of the chunk (the characters before it are appended to
\* lineBuffer, a local), or up to the end of the chunk when it has none.
IdxScanLine(p) ==
  /\ pass[p].pc = "scan"
  /\ ~crashed
  /\ pass[p].i < pass[p].bufferSize
  /\ LET loc == pass[p]
         nls == {k \in loc.i..(loc.bufferSize - 1) : BufferAt(p, k) = NL}
         j == IF nls = {} THEN loc.bufferSize ELSE SetMin(nls)
     IN \E lineBuffer \in {loc.lineBuffer
                            \o SubSeq(fileBytes, loc.bufferStartPos + loc.i + 1,
                                      loc.bufferStartPos + j)} :
        \E raw \in {parseCSVLine(lineBuffer, ";")} :
        \E rowItemList \in IndexerFields(raw) :
        \E r \in {ProcessLine(p, rowItemList)} :
           IF nls = {}
           THEN /\ pass' = [pass EXCEPT ![p].lineBuffer = lineBuffer, ![p].i = j]
                /\ UNCHANGED <<parsingError, indexVars, crashed, hist>>
           ELSE IF Len(lineBuffer) = 0
           THEN /\ pass' = [pass EXCEPT
                              ![p].lineBufferStartPos =
                                 NextLineStart(loc.bufferStartPos, j),
                              ![p].i = j + 1]
                /\ UNCHANGED <<parsingError, indexVars, crashed, hist>>
           ELSE /\ pass' = [pass EXCEPT
                              ![p].lastPOC = r.lastPOC,
                              ![p].lastType = r.lastType,
                              ![p].sortingFixed = r.sortingFixed,
                              ![p].lineBuffer =
                                 IF r.outcome = "ok" THEN <<>> ELSE lineBuffer,
                              ![p].lineBufferStartPos =
                                 IF r.outcome = "ok"
                                 THEN NextLineStart(loc.bufferStartPos, j) ELSE @,
                              ![p].i = IF r.outcome = "ok" THEN j + 1 ELSE j,
                              ![p].pc = IF r.outcome = "throw" THEN "done" ELSE @]
                /\ pocTypeStartList' = r.index
                /\ fileSortedByPOC' = r.sorted
                /\ maxPOC' = r.maxPOC
                /\ backgroundParserProgress' = r.progress
                /\ parsingError' = r.error
                /\ crashed' = (r.outcome = "range")
                /\ hist' = [hist EXCEPT
                              !.seqRepeat = @ \/ RepeatsPair(loc.lineBufferStartPos, FALSE),
                              !.ilvRepeat = @ \/ RepeatsPOC(loc.lineBufferStartPos, TRUE),
                              !.indexReadBeyond = @ \/ BodyReadsBeyond(raw),
                              !.fixedBy[p] =
                                 IF loc.sortingFixed \/ ~r.sortingFixed THEN @
                                 ELSE IF IsTypeChange(toInt(Field(rowItemList, 5)),
                                                      toInt(Field(rowItemList, 0)),
                                                      loc.lastType, loc.lastPOC)
                                 THEN "type" ELSE "poc",
                              !.violationPass =
                                 IF @ = 0 /\ BreaksContinuity(loc.lineBufferStartPos)
                                 THEN p ELSE @,
                              !.violationAt =
                                 IF hist.violationPass = 0
                                    /\ BreaksContinuity(loc.lineBufferStartPos)
                                 THEN loc.lineBufferStartPos ELSE @,
                              !.indexAtViolation =
                                 IF hist.violationPass = 0
                                    /\ BreaksContinuity(loc.lineBufferStartPos)
                                 THEN pocTypeStartList ELSE @,
                              !.linesAfterViolation =
                                 IF hist.violationPass = p THEN @ + 1 ELSE @,
                              !.threwAfterCancel[p] =
                                 @ \/ (r.outcome = "throw" /\ hist.cancelSeen[p]),
                              !.indexWrittenInLoad =
                                 @ \/ (mLockStatAccess = "loader"
                                       /\ (r.index # pocTypeStartList
                                           \/ r.sorted # fileSortedByPOC))]
  /\ UNCHANGED <<fileBytes, parsingBufferSize, chartCall, mpc, headerVars, cacheVars, startEndFrame,
                 cancelBackgroundParser, backgroundParserFuture, loaderVars,
                 nReloads>>

\* The end of the for loop: line 269.
IdxEndChunk(p) ==
  /\ pass[p].pc = "scan"
  /\ ~crashed
  /\ pass[p].i = pass[p].bufferSize
  /\ pass' = [pass EXCEPT ![p].bufferStartPos = @ + pass[p].bufferSize,
                          ![p].pc = "loop"]
  /\ UNCHANGED <<fileBytes, parsingBufferSize, chartCall, mpc, headerVars, parsingError, indexVars, cacheVars,
                 startEndFrame, cancelBackgroundParser, backgroundParserFuture,
                 loaderVars, crashed, nReloads, hist>>

\* The while condition false, at the end of the file or on cancellation, and
\* the rest of the function: lines 272-281.
IdxFinish(p) ==
  /\ pass[p].pc = "loop"
  /\ ~crashed
  /\ ~LoopCondition(p)
  /\ startEndFrame' = <<0, maxPOC>>
  /\ chartCache' = statsCache
  /\ backgroundParserProgress' = <<100, 1>>
  /\ pass' = [pass EXCEPT ![p].pc = "done"]
  /\ hist' = [hist EXCEPT
                !.cancelled = @ \/ ~pass[p].fileAtEnd,
                !.finish = [pass |-> p, atEnd |-> pass[p].fileAtEnd,
                            error |-> parsingError, range |-> startEndFrame',
                            maxPOC |-> maxPOC, indexed |-> DOMAIN pocTypeStartList,
                            progress |-> backgroundParserProgress']]
  /\ UNCHANGED <<fileBytes, parsingBufferSize, chartCall, mpc, headerVars, parsingError, fileSortedByPOC,
                 maxPOC, pocTypeStartList, statsCache, blockOutsideOfFrame_idx,
                 cancelBackgroundParser, backgroundParserFuture, loaderVars,
                 crashed, nReloads>>

\* The end of the constructor (lines 69-72) and of reloadItemSource (lines
\* 727-729): the indexing pass is started in the background.
StartPass ==
  /\ mpc = "start"
  /\ ~crashed
  /\ cancelBackgroundParser' = FALSE
  /\ backgroundParserFuture' = backgroundParserFuture + 1
  /\ pass' = [pass EXCEPT ![backgroundParserFuture + 1] = NewPass]
  /\ mpc' = "idle"
  /\ UNCHANGED <<fileBytes, parsingBufferSize, chartCall, headerVars, parsingError, indexVars, cacheVars,
                 startEndFrame, loaderVars, crashed, nReloads, hist>>

\* -------------------------------------------------- loadStatisticToCache
\* statisticsData(): an entry without records
EmptyData == [valueData |-> <<>>, vectorData |-> <<>>]

\* Faulty variant: insert keeps an entry that exists.
CacheInsertIfAbsent(cache, typeID, data) ==
  [t \in DOMAIN cache \cup {typeID} |-> IF t \in DOMAIN cache THEN cache[t] ELSE data]

\* statsCache.insert(typeID, data): the entry is replaced
CacheInsert(cache, typeID, data) ==
  [t \in DOMAIN cache \cup {typeID} |-> IF t = typeID THEN data ELSE cache[t]]

\* statsCache[type] on the map itself: a new key gets an empty entry
CacheInsertIfNew(cache, type) ==
  IF type \in DOMAIN cache THEN cache
  ELSE [t \in DOMAIN cache \cup {type} |-> IF t = type THEN EmptyData ELSE cache[t]]

\* statsCache[type]: the entry, default constructed when the key is new
CacheAt(cache, type) == IF type \in DOMAIN cache THEN cache[type] ELSE EmptyData

\* statsCache[type].addBlockValue / addBlockVector / addLine
AddBlockValue(cache, type, item) ==
  CacheInsert(cache, type,
    [CacheAt(cache, type) EXCEPT !.valueData = Append(@, item)])
AddBlockVector(cache, type, item) ==
  CacheInsert(cache, type,
    [CacheAt(cache, type) EXCEPT !.vectorData = Append(@, item)])

\* statSource.getStatisticsType(type): the registry is keyed by typeID and
\* the last declaration with an ID is the one it holds
HasStatisticsType(type) ==
  \E k \in 1..Len(statsTypeList) : statsTypeList[k].typeID = type
GetStatisticsType(type) ==
  statsTypeList[SetMax({k \in 1..Len(statsTypeList) :
                          statsTypeList[k].typeID = type})]

\* lines 477: no start position is known for the frame and type
NoStartPosition(frame, typeID) == ~HasEntry(pocTypeStartList, frame, typeID)

\* Faulty variant: reading starts at the offset of the pair in both layouts.
StartPosOfPair(frame, typeID) == pocTypeStartList[frame][typeID]

\* lines 486-498: where reading starts
StartPos(frame, typeID) ==
  IF fileSortedByPOC
  THEN SetMin({pocTypeStartList[frame][t] : t \in DOMAIN pocTypeStartList[frame]})
  ELSE pocTypeStartList[frame][typeID]

\* lines 517-522: the line ends the data of the frame and type
EndsData(poc, type, frame, typeID) ==
  poc # frame \/ (~fileSortedByPOC /\ type # typeID)

\* getData reads chartStatSource.statsCache[typeIdx] when the call it made
\* has returned (line 783): operator[] of the map adds an empty entry for a
\* key it does not hold.
ReadAfterLoad(cache, typeIdx, caller) ==
  IF caller = "getData" THEN CacheInsertIfNew(cache, typeIdx) ELSE cache

\* A call of the item made by its owner; the calls are bounded.
CountedCall == nLoads < MaxLoads /\ nLoads' = nLoads + 1

\* The call up to the while loop (lines 469-501), with the chart cache as
\* the caller has left it. The mutex is taken; without a start position both
\* caches get an empty entry and the call returns.
LoadCall(frame, typeID, chart, caller) ==
  /\ mpc = "idle"
  /\ ~crashed
  /\ lpc = "idle"
  /\ mLockStatAccess = "none"
  /\ lFrame' = frame
  /\ lType' = typeID
  /\ IF NoStartPosition(frame, typeID)
     THEN /\ statsCache' = CacheInsert(statsCache, typeID, EmptyData)
          /\ chartCache' = CacheInsert(chart, typeID, EmptyData)
          /\ UNCHANGED <<mLockStatAccess, lpc, inPos>>
     ELSE /\ mLockStatAccess' = "loader"
          /\ lpc' = IF caller = "getData" THEN "readForGetData" ELSE "read"
          /\ inPos' = StartPos(frame, typeID)
          /\ chartCache' = chart
          /\ UNCHANGED statsCache
  /\ LET absent == ~HasEntry(pocTypeStartList, frame, typeID)
     IN hist' = [hist EXCEPT
                   !.loadedAbsent = absent,
                   !.before = statsCache,
                   !.chartBefore = chart,
                   !.indexBefore = IF absent THEN pocTypeStartList ELSE EmptyMap,
                   !.freshLoad = statsCache = EmptyMap /\ chart = EmptyMap,
                   !.duringPass = FutureIsRunning,
                   !.loadStart = IF absent THEN -1 ELSE inPos',
                   !.stopLine = -1,
                   !.decoded = 0,
                   !.repeatedLoad =
                      /\ nLoads > 0 /\ lFrame = frame /\ lType = typeID
                      /\ hist.freshLoad /\ ~hist.loadedAbsent]
  /\ UNCHANGED <<fileBytes, parsingBufferSize, mpc, headerVars, parsingError, indexVars,
                 blockOutsideOfFrame_idx, startEndFrame, cancelBackgroundParser,
                 backgroundParserFuture, pass, crashed, nReloads>>

\* loadStatisticToCache called by the statistics handler (line 75)
LoadBegin(frame, typeID) ==
  /\ chartCall.pc = "none"
  /\ CountedCall
  /\ LoadCall(frame, typeID, chartCache, "handler")
  /\ UNCHANGED chartCall

\* chartStatSource has the types of statSource once a pass has copied the
\* handler (line 275), which it does where it publishes the frame range.
ChartHasType(typeID) ==
  startEndFrame # <<-1, -1>> /\ HasStatisticsType(typeID)

\* lines 814-822
isRangeInside(aOriginalRange, aCheckRange) ==
  \/ aOriginalRange[1] > aOriginalRange[2]
  \/ aCheckRange[1] > aCheckRange[2]
  \/ aOriginalRange[1] <= aCheckRange[1] /\ aOriginalRange[2] >= aCheckRange[2]

\* A record of n fields is a scalar with 7 fields and a vector or a line
\* with more (lines 531-543); its kind does not match a type that lacks the
\* capability for it.
KindMismatch(n, statsType) ==
  IF n > 7 THEN ~statsType.hasVectorData ELSE ~statsType.hasValueData

\* the caller of the call of loadStatisticToCache that is under way
Caller == IF lpc = "readForGetData" THEN "getData" ELSE "handler"

\* Faulty variant: every block outside of the frame is marked.
MarksEveryBlockOutside(idx, outside) == outside

\* line 550: the first block outside of the frame is marked
MarksBlockOutside(idx, outside) == idx = -1 /\ outside

\* The last field that lines 526-539 read of a record of n fields.
LoadLastFieldRead(n) == IF n > 8 THEN 9 ELSE IF n > 7 THEN 7 ELSE 6

\* The record with every field the iteration reads. The code checks the
\* count of no record: rowItemList[5] is read of every record whose first
\* field is not empty (line 515), rowItemList[6] of every record that is not
\* a break (line 526), rowItemList[9] of every record of more than 8 fields
\* (line 539).
LoadFields(raw, g) == PadTo(raw, LoadLastFieldRead(Count(raw)) + 1, g)

\* One iteration of the while loop (lines 503-572), and the return at the
\* end of the file or at a break. A read out of range and the use of a type
\* the registry does not hold (lines 554-555) stop a build with assertions;
\* a build without them goes on with what the read returns, and with a null
\* statsType, which it dereferences for a record of more than 7 fields.
LoadLine ==
  /\ lpc \in {"read", "readForGetData"}
  /\ ~crashed
  /\ IF AtEnd(inPos)
     THEN /\ lpc' = "idle"
          /\ mLockStatAccess' = "none"
          /\ chartCache' = ReadAfterLoad(chartCache, lType, Caller)
          /\ hist' = [hist EXCEPT !.stopLine = inPos]
          /\ UNCHANGED <<inPos, statsCache, blockOutsideOfFrame_idx, crashed>>
     ELSE \E aLine \in {ReadLine(inPos)} :
          \E raw \in {parseCSVLine(aLine, ";")} :
          \E short \in {Field(raw, 0) # <<>> /\ (Count(raw) < 7 \/ Count(raw) = 9)} :
          \E g \in (IF short THEN GarbageFields ELSE {<<>>}) :
          \E stops \in (IF short THEN BOOLEAN ELSE {FALSE}) :
          LET rowItemList == LoadFields(raw, g)
              n == Count(raw)
              poc == toInt(Field(rowItemList, 0))
              type == toInt(Field(rowItemList, 5))
              value(k) == toInt(Field(rowItemList, 6 + k))
              posX == toInt(Field(rowItemList, 1))
              posY == toInt(Field(rowItemList, 2))
              width == toUInt(Field(rowItemList, 3))
              height == toUInt(Field(rowItemList, 4))
              lineData == n > 8
              vectorData == n > 7 /\ ~lineData
              outside == posX + width > statFrameSize[1]
                         \/ posY + height > statFrameSize[2]
              block == [x |-> posX, y |-> posY, w |-> width, h |-> height]
              asVector == block @@ [kind |-> "vector", v |-> <<value(0), value(1)>>]
              asLine == block @@ [kind |-> "line",
                                  v |-> <<value(0), value(1), value(2), value(3)>>]
              asValue == block @@ [kind |-> "value", v |-> <<value(0)>>]
          IN /\ inPos' = LineEnd(inPos)
             /\ IF Field(rowItemList, 0) = <<>>
                THEN UNCHANGED <<lpc, mLockStatAccess, cacheVars, crashed>>
                ELSE IF n < 6 /\ stops
                THEN /\ crashed' = TRUE
                     /\ UNCHANGED <<lpc, mLockStatAccess, cacheVars>>
                ELSE IF EndsData(poc, type, lFrame, lType)
                THEN /\ lpc' = "idle"
                     /\ mLockStatAccess' = "none"
                     /\ chartCache' = ReadAfterLoad(chartCache, lType, Caller)
                     /\ UNCHANGED <<statsCache, blockOutsideOfFrame_idx, crashed>>
                ELSE IF short /\ stops
                THEN /\ crashed' = TRUE
                     /\ UNCHANGED <<lpc, mLockStatAccess, cacheVars>>
                ELSE /\ blockOutsideOfFrame_idx' =
                          IF MarksBlockOutside(blockOutsideOfFrame_idx, outside)
                          THEN lFrame ELSE blockOutsideOfFrame_idx
                     /\ IF ~HasStatisticsType(type)
                        THEN \E asserts \in BOOLEAN :
                             IF asserts \/ vectorData \/ lineData
                             THEN /\ crashed' = TRUE
                                  /\ UNCHANGED <<statsCache, chartCache>>
                             ELSE /\ crashed' = FALSE
                                  /\ statsCache' = AddBlockValue(statsCache, type, asValue)
                                  /\ chartCache' = AddBlockValue(chartCache, type, asValue)
                        ELSE /\ crashed' = FALSE
                             /\ IF vectorData /\ GetStatisticsType(type).hasVectorData
                                THEN /\ statsCache' = AddBlockVector(statsCache, type, asVector)
                                     /\ chartCache' = AddBlockVector(chartCache, type, asVector)
                                ELSE IF lineData /\ GetStatisticsType(type).hasVectorData
                                THEN /\ statsCache' = AddBlockVector(statsCache, type, asLine)
                                     /\ chartCache' = AddBlockVector(chartCache, type, asLine)
                                ELSE /\ statsCache' = AddBlockValue(statsCache, type, asValue)
                                     /\ chartCache' = AddBlockValue(chartCache, type, asValue)
                     /\ UNCHANGED <<lpc, mLockStatAccess>>
             /\ hist' = [hist EXCEPT
                           !.readBeyond =
                              @ \/ (short /\ (n < 6 \/ ~EndsData(poc, type, lFrame, lType))),
                           !.typeMissing =
                              @ \/ /\ Field(rowItemList, 0) # <<>>
                                   /\ ~(short /\ stops)
                                   /\ ~EndsData(poc, type, lFrame, lType)
                                   /\ ~HasStatisticsType(type),
                           !.stopLine =
                              IF Field(rowItemList, 0) # <<>> /\ (n >= 6 \/ ~stops)
                                 /\ EndsData(poc, type, lFrame, lType)
                              THEN inPos ELSE @,
                           !.decoded =
                              IF statsCache' # statsCache THEN @ + 1 ELSE @,
                           !.added =
                              IF statsCache' = statsCache THEN @
                              ELSE LET now == CacheAt(statsCache', type)
                                       item ==
                                         IF Len(now.valueData)
                                              > Len(CacheAt(statsCache, type).valueData)
                                         THEN now.valueData[Len(now.valueData)]
                                         ELSE now.vectorData[Len(now.vectorData)]
                                   IN [fields |-> n, kind |-> item.kind,
                                       components |-> Len(item.v),
                                       both |-> vectorData /\ lineData],
                           !.mismatchAdded =
                              @ \/ /\ Field(rowItemList, 0) # <<>>
                                   /\ n >= 7 /\ n # 9
                                   /\ ~EndsData(poc, type, lFrame, lType)
                                   /\ HasStatisticsType(type)
                                   /\ KindMismatch(n, GetStatisticsType(type))
                                   /\ (statsCache' # statsCache
                                       \/ chartCache' # chartCache)]
  /\ UNCHANGED <<fileBytes, parsingBufferSize, chartCall, mpc, headerVars, parsingError, indexVars,
                 startEndFrame, cancelBackgroundParser, backgroundParserFuture,
                 pass, lFrame, lType, nLoads, nReloads>>

\* ------------------------------------- sortAndCategorizeData and ByRange
INT_MAX == 2147483647

\* No call is under way. A call keeps the type and the range it was made
\* for, the frame it is at, the two maps label -> (value -> count), the
\* list resultData of sortAndCategorizeData and preResult of the range, and
\* whether the list of the frame and of every frame so far was defined.
NoChartCall ==
  [pc |-> "none", op |-> "none", typeID |-> 0, first |-> 0, last |-> 0,
   frame |-> 0, defined |-> TRUE, listDefined |-> TRUE, valueMap |-> EmptyMap, vectorMap |-> EmptyMap,
   maxElementsToNeed |-> 0, resultData |-> <<>>, preResult |-> <<>>]

\* lines 783-800: the list getData makes of the entry of the type
GetDataList(cache, typeIdx) ==
  LET statType == GetStatisticsType(typeIdx)
      statDataByType == CacheAt(cache, typeIdx)
  IN IF statType.hasValueData THEN statDataByType.valueData
     ELSE IF statType.hasVectorData THEN statDataByType.vectorData
     ELSE <<>>

\* item.canConvert<statisticsItem_Value>() and <statisticsItem_Vector>()
IsValueItem(item) == item.kind = "value"
IsVectorItem(item) == item.kind \in {"vector", "line"}

\* value.value of a scalar, vector.point[0] of a vector or line
ItemValue(item) ==
  IF IsValueItem(item) THEN <<item.v[1]>> ELSE <<item.v[1], item.v[2]>>

\* QString::number(width) + "x" + QString::number(height)
LabelOf(width, height) == Num(width) \o <<"x">> \o Num(height)

\* lines 873-970 for the items of one kind: the count of every value under
\* every label
RECURSIVE GroupItems(_, _)
GroupItems(data, map) ==
  IF data = <<>> THEN map
  ELSE LET item == Head(data)
           label == LabelOf(item.w, item.h)
           value == ItemValue(item)
           inner == IF label \in DOMAIN map THEN map[label] ELSE EmptyMap
           counter == IF value \in DOMAIN inner THEN inner[value] + 1 ELSE 1
       IN GroupItems(Tail(data),
                     CacheInsert(map, label, CacheInsert(inner, value, counter)))

\* The order of the keys of a QMap: QString compares by character code,
\* int by value. The order of a QHash<QPoint> is not specified; the points
\* are taken in the order of their coordinates.
CodeOf(c) == IF IsDigit(c) THEN 48 + DigitVal(c) ELSE IF c = "x" THEN 120 ELSE 45
Codes(label) == [i \in 1..Len(label) |-> CodeOf(label[i])]
SeqLess(a, b) ==
  \E k \in 1..(Len(a) + 1) :
    /\ k <= Len(b) + 1
    /\ \A i \in 1..(k - 1) : a[i] = b[i]
    /\ IF k > Len(a) THEN k <= Len(b)
       ELSE k <= Len(b) /\ a[k] < b[k]
RECURSIVE SortedLabels(_)
SortedLabels(S) ==
  IF S = {} THEN <<>>
  ELSE LET m == CHOOSE a \in S :
                  \A b \in S : a = b \/ SeqLess(Codes(a), Codes(b))
       IN <<m>> \o SortedLabels(S \ {m})
RECURSIVE SortedValues(_)
SortedValues(S) ==
  IF S = {} THEN <<>>
  ELSE LET m == CHOOSE a \in S : \A b \in S : a = b \/ SeqLess(a, b)
       IN <<m>> \o SortedValues(S \ {m})

\* lines 836-842: the characters of the label before its 'x'
NumberString(label) ==
  LET xs == {k \in 1..Len(label) : label[k] = "x"}
  IN SubSeq(label, 1, IF xs = {} THEN Len(label) ELSE SetMin(xs) - 1)

\* lines 832-854: the loop over the labels
RECURSIVE SmallestFrom(_, _, _)
SmallestFrom(labels, smallestFoundNumber, resultKey) ==
  IF labels = <<>> THEN resultKey
  ELSE LET number == toInt(NumberString(Head(labels)))
       IN IF number < smallestFoundNumber
          THEN SmallestFrom(Tail(labels), number, Head(labels))
          ELSE SmallestFrom(Tail(labels), smallestFoundNumber, resultKey)

\* lines 826-857
getSmallestKey(aMapKeys) == SmallestFrom(aMapKeys, INT_MAX, <<>>)

\* lines 990-1000 and 1034-1043: the collectedData of a label, with one
\* pair (value, amount) for every key of its map
CollectedOf(kind, key, map) ==
  LET values == SortedValues(DOMAIN map)
  IN [mStatDataType |-> kind, mLabel |-> key,
      mValues |-> [i \in 1..Len(values) |-> <<values[i], map[values[i]]>>]]

\* map.remove(key)
MapRemove(map, key) == [k \in DOMAIN map \ {key} |-> map[k]]

\* collectedData::operator== and addValues, as sortAndCategorizeDataByRange
\* uses them: two groups are the same with the same label and data kind,
\* and the pairs of the other group are appended.
SameCollected(a, b) == a.mLabel = b.mLabel /\ a.mStatDataType = b.mStatDataType
AddValues(into, from) == [into EXCEPT !.mValues = @ \o from.mValues]

\* lines 1094-1123: the groups of one frame go into preResult
RECURSIVE MergeFrame(_, _)
MergeFrame(preResult, collectedDataByFrameList) ==
  IF collectedDataByFrameList = <<>> THEN preResult
  ELSE LET frameData == Head(collectedDataByFrameList)
           js == {j \in 1..Len(preResult) : SameCollected(preResult[j], frameData)}
       IN IF js # {}
          THEN MergeFrame([preResult EXCEPT ![SetMin(js)] = AddValues(@, frameData)],
                          Tail(collectedDataByFrameList))
          ELSE MergeFrame(Append(preResult,
                                 AddValues([frameData EXCEPT !.mValues = <<>>], frameData)),
                          Tail(collectedDataByFrameList))

\* lines 1139-1173: the amounts of equal values are summed
RECURSIVE SumInto(_, _)
SumInto(tmpDataList, mValues) ==
  IF mValues = <<>> THEN tmpDataList
  ELSE LET pair == Head(mValues)
           ks == {k \in 1..Len(tmpDataList) : tmpDataList[k][1] = pair[1]}
       IN IF ks # {}
          THEN SumInto([tmpDataList EXCEPT ![SetMin(ks)] = <<@[1], @[2] + pair[2]>>],
                       Tail(mValues))
          ELSE SumInto(Append(tmpDataList, pair), Tail(mValues))

\* lines 1130-1185
SumUp(preResult) ==
  [i \in 1..Len(preResult) |->
     [preResult[i] EXCEPT !.mValues = SumInto(<<>>, @)]]

\* getData(range(frame, frame), true, aType) as sortAndCategorizeData calls
\* it (line 864), for the type with the ID typeID and the chart cache as the
\* caller has left it. The frame is loaded when the chart handler has the
\* type and the frame is in range (lines 760-781). Otherwise mStatisticData
\* has no list for the type and allData.at(0) is read out of range (line
\* 870): the call crashes or goes on with a list that is not defined, for
\* which the empty list stands.
GetData(frame, typeID, chart, call) ==
  IF ChartHasType(typeID) /\ isRangeInside(startEndFrame, <<frame, frame>>)
  THEN /\ LoadCall(frame, typeID, chart, "getData")
       /\ chartCall' = [call EXCEPT !.pc = "getData", !.frame = frame,
                                    !.listDefined = TRUE]
  ELSE /\ mpc = "idle"
       /\ ~crashed
       /\ lpc = "idle"
       /\ chartCache' = chart
       /\ crashed' \in BOOLEAN
       /\ chartCall' = [call EXCEPT !.pc = "getData", !.frame = frame,
                                    !.listDefined = FALSE, !.defined = FALSE]
       /\ UNCHANGED <<fileBytes, parsingBufferSize, mpc, headerVars, parsingError, indexVars,
                      statsCache, blockOutsideOfFrame_idx, startEndFrame,
                      cancelBackgroundParser, backgroundParserFuture, pass,
                      mLockStatAccess, lpc, lFrame, lType, inPos, nReloads, hist>>

\* sortAndCategorizeData(aType, aFrameIndex) called by the chart, up to the
\* load of getData. The chart and the statistics handler call the item from
\* one thread: no call is made while another is under way.
sortAndCategorizeData(aFrameIndex, typeID) ==
  /\ chartCall.pc = "none"
  /\ CountedCall
  /\ GetData(aFrameIndex, typeID, chartCache,
             [NoChartCall EXCEPT !.op = "single", !.typeID = typeID,
                                 !.first = aFrameIndex, !.last = aFrameIndex])

\* sortAndCategorizeDataByRange(aType, aRange): the chart cache is cleared
\* (line 1078) and sortAndCategorizeData is called for the first frame
\* (lines 1082 and 1092).
sortAndCategorizeDataByRange(aRange, typeID) ==
  /\ chartCall.pc = "none"
  /\ aRange[1] <= aRange[2]
  /\ CountedCall
  /\ GetData(aRange[1], typeID, EmptyMap,
             [NoChartCall EXCEPT !.op = "range", !.typeID = typeID,
                                 !.first = aRange[1], !.last = aRange[2]])

\* What a step of the call leaves alone besides chartCall.
ChartStepKeeps ==
  UNCHANGED <<fileBytes, parsingBufferSize, mpc, headerVars, parsingError, indexVars, cacheVars,
              startEndFrame, cancelBackgroundParser, backgroundParserFuture,
              pass, loaderVars, nReloads>>

\* lines 866-978: the load has returned; the items of the list are counted
\* by label and value
GroupData ==
  /\ chartCall.pc = "getData"
  /\ lpc = "idle"
  /\ ~crashed
  /\ LET data == IF chartCall.listDefined
                 THEN GetDataList(chartCache, chartCall.typeID) ELSE <<>>
         values == GroupItems(SelectSeq(data, IsValueItem), EmptyMap)
         vectors == GroupItems(SelectSeq(data, IsVectorItem), EmptyMap)
     IN /\ chartCall' = [chartCall EXCEPT
                           !.pc = "orderValues",
                           !.valueMap = values,
                           !.vectorMap = vectors,
                           !.resultData = <<>>,
                           !.maxElementsToNeed = Cardinality(DOMAIN values)]
        /\ hist' = [hist EXCEPT !.data = data]
  /\ ChartStepKeeps
  /\ UNCHANGED crashed

\* One iteration of a while loop of the ordering (lines 982-1003 and
\* 1026-1046) over the map of the kind: the group of the smallest key is
\* appended and the key removed. A key the map does not hold gives a null
\* map, which is dereferenced.
OrderStep(kind, map) ==
  \E key \in {getSmallestKey(SortedLabels(DOMAIN map))} :
     IF key \in DOMAIN map
     THEN /\ chartCall' =
               [chartCall EXCEPT
                  !.resultData = Append(@, CollectedOf(kind, key, map[key])),
                  !.valueMap = IF kind = "value" THEN MapRemove(@, key) ELSE @,
                  !.vectorMap = IF kind = "vector" THEN MapRemove(@, key) ELSE @]
          /\ UNCHANGED crashed
     ELSE /\ crashed' = TRUE
          /\ UNCHANGED chartCall

\* lines 982-1018: the loop over the scalars, and what follows it
OrderValues ==
  /\ chartCall.pc = "orderValues"
  /\ ~crashed
  /\ IF Len(chartCall.resultData) < chartCall.maxElementsToNeed
     THEN OrderStep("value", chartCall.valueMap)
     ELSE /\ chartCall' =
               [chartCall EXCEPT
                  !.pc = "orderVectors",
                  !.maxElementsToNeed = @ + Cardinality(DOMAIN chartCall.vectorMap)]
          /\ UNCHANGED crashed
  /\ ChartStepKeeps
  /\ UNCHANGED hist

\* lines 1026-1073: the loop over the vectors, and the return
OrderVectors ==
  /\ chartCall.pc = "orderVectors"
  /\ ~crashed
  /\ IF Len(chartCall.resultData) < chartCall.maxElementsToNeed
     THEN OrderStep("vector", chartCall.vectorMap)
     ELSE /\ chartCall' = [chartCall EXCEPT !.pc = "categorized"]
          /\ UNCHANGED crashed
  /\ ChartStepKeeps
  /\ UNCHANGED hist

\* What the caller is given back.
Returned(call, groups) ==
  [made |-> TRUE, typeID |-> call.typeID, first |-> call.first,
   last |-> call.last, defined |-> call.defined, groups |-> groups]

\* sortAndCategorizeData has returned. A call of it by the chart, and a
\* range of one frame (line 1082), return its list. A longer range merges
\* the list into preResult (lines 1094-1123) and goes to the next frame
\* (line 1089), or sums up and returns after the last (lines 1130-1192).
Categorized ==
  /\ chartCall.pc = "categorized"
  /\ ~crashed
  /\ IF chartCall.op = "single"
     THEN /\ hist' = [hist EXCEPT
                        !.single = Returned(chartCall, chartCall.resultData)]
          /\ chartCall' = NoChartCall
          /\ ChartStepKeeps
          /\ UNCHANGED crashed
     ELSE IF chartCall.first = chartCall.last
     THEN /\ hist' = [hist EXCEPT
                        !.range = Returned(chartCall, chartCall.resultData)]
          /\ chartCall' = NoChartCall
          /\ ChartStepKeeps
          /\ UNCHANGED crashed
     ELSE LET preResult == MergeFrame(chartCall.preResult, chartCall.resultData)
          IN IF chartCall.frame < chartCall.last
             THEN /\ GetData(chartCall.frame + 1, chartCall.typeID, chartCache,
                             [chartCall EXCEPT !.preResult = preResult,
                                               !.resultData = <<>>])
                  /\ UNCHANGED nLoads
             ELSE /\ hist' = [hist EXCEPT
                                !.range = Returned(chartCall, SumUp(preResult))]
                  /\ chartCall' = NoChartCall
                  /\ ChartStepKeeps
                  /\ UNCHANGED crashed

\* ------------------------------------------------------ reloadItemSource
\* lines 695-701: the defaults are set again
ReloadReset ==
  /\ mpc = "idle"
  /\ ~crashed
  /\ lpc = "idle"
  /\ chartCall.pc = "none"
  /\ nReloads < MaxReloads
  /\ nReloads' = nReloads + 1
  /\ fileSortedByPOC' = FALSE
  /\ blockOutsideOfFrame_idx' = -1
  /\ backgroundParserProgress' = <<0, 1>>
  /\ parsingError' = NoError
  /\ maxPOC' = 0
  /\ mpc' = "reload_check"
  /\ UNCHANGED <<fileBytes, parsingBufferSize, chartCall, headerVars, startEndFrame, pocTypeStartList,
                 statsCache, chartCache, cancelBackgroundParser,
                 backgroundParserFuture, pass, loaderVars, crashed, hist>>

\* lines 704-707, and lines 82-85 of the destructor: a running pass is told
\* to stop
CancelIfRunning(waiting, proceed) ==
  /\ ~crashed
  /\ IF FutureIsRunning
     THEN /\ cancelBackgroundParser' = TRUE
          /\ mpc' = waiting
          /\ hist' = [hist EXCEPT !.cancelSeen[backgroundParserFuture] = TRUE,
                                  !.indexAtCancel = pocTypeStartList,
                                  !.errorAtCancel = parsingError]
     ELSE /\ mpc' = proceed
          /\ UNCHANGED <<cancelBackgroundParser, hist>>
  /\ UNCHANGED <<fileBytes, parsingBufferSize, chartCall, headerVars, parsingError, indexVars, cacheVars,
                 startEndFrame, backgroundParserFuture, pass, loaderVars,
                 crashed, nReloads>>

\* Faulty variant: waitForFinished does not wait.
PassReturnedAtOnce == TRUE

\* Faulty variant: waitForFinished never returns.
PassNeverReturns == FALSE

\* backgroundParserFuture.waitForFinished() returns: lines 708 and 86
PassReturned == ~FutureIsRunning
WaitForFinished(proceed) ==
  /\ ~crashed
  /\ PassReturned
  /\ mpc' = proceed
  /\ UNCHANGED <<fileBytes, parsingBufferSize, chartCall, headerVars, parsingError, indexVars, cacheVars,
                 startEndFrame, cancelBackgroundParser, backgroundParserFuture,
                 pass, loaderVars, crashed, nReloads, hist>>

ReloadCheck == mpc = "reload_check" /\ CancelIfRunning("reload_wait", "reload_clear")
ReloadWait == mpc = "reload_wait" /\ WaitForFinished("reload_clear")

\* lines 711-722: the parsed data is cleared, the file is opened again and
\* readHeaderFromFile starts
ReloadClear ==
  /\ mpc = "reload_clear"
  /\ ~crashed
  /\ pocTypeStartList' = EmptyMap
  /\ statsCache' = EmptyMap
  /\ filePos' = 0
  /\ statsTypeList' = <<>>
  /\ typeParsingActive' = FALSE
  /\ aType' = NewStatisticsType
  /\ mpc' = "header"
  /\ hist' = [hist EXCEPT
                !.clears = @ + 1,
                !.clearedWhileRunning =
                   @ \/ \E q \in Passes : pass[q].pc \in {"loop", "scan"}]
  /\ UNCHANGED <<fileBytes, parsingBufferSize, chartCall, statFrameSize, parsingError, fileSortedByPOC, maxPOC,
                 backgroundParserProgress, blockOutsideOfFrame_idx,
                 startEndFrame, chartCache, cancelBackgroundParser,
                 backgroundParserFuture, pass, loaderVars, crashed, nReloads>>

\* ------------------------------------------- ~playlistItemStatisticsFile
DtorCheck == mpc = "idle" /\ lpc = "idle" /\ CancelIfRunning("dtor_wait", "destroyed")
DtorWait == mpc = "dtor_wait" /\ WaitForFinished("destroyed")

\* ------------------------------------------------------------ initial state
\* The constructor up to the call of readHeaderFromFile (lines 50-66), for
\* a file of the set F.
NewHist(declared) ==
  [declared |-> declared, recs |-> FileDataRecs,
             seqRepeat |-> FALSE, ilvRepeat |-> FALSE,
             headerReadBeyond |-> FALSE, indexReadBeyond |-> FALSE,
             mismatchAdded |-> FALSE,
             loadStart |-> -1, stopLine |-> -1, decoded |-> 0,
             finish |-> [pass |-> 0, atEnd |-> FALSE, error |-> NoError,
                         range |-> <<-1, -1>>, maxPOC |-> 0, indexed |-> {},
                         progress |-> <<0, 1>>],
             added |-> [fields |-> 0, kind |-> "none", components |-> 0,
                        both |-> FALSE],
             fixedBy |-> [p \in Passes |-> "none"],
             repeatedLoad |-> FALSE,
             violationPass |-> 0, violationAt |-> 0,
             indexAtViolation |-> EmptyMap, linesAfterViolation |-> 0,
             cancelSeen |-> [p \in Passes |-> FALSE], cancelled |-> FALSE,
             chunksAfterCancel |-> 0,
             threwAfterCancel |-> [p \in Passes |-> FALSE],
             indexAtCancel |-> EmptyMap, errorAtCancel |-> NoError,
             clears |-> 0, clearedWhileRunning |-> FALSE,
             data |-> <<>>,
             single |-> [made |-> FALSE, typeID |-> 0, first |-> 0, last |-> 0,
                         defined |-> TRUE, groups |-> <<>>],
             range |-> [made |-> FALSE, typeID |-> 0, first |-> 0, last |-> 0,
                        defined |-> TRUE, groups |-> <<>>],
             loadedAbsent |-> FALSE, before |-> EmptyMap, chartBefore |-> EmptyMap,
             indexBefore |-> EmptyMap, freshLoad |-> FALSE,
             indexWrittenInLoad |-> FALSE, duringPass |-> FALSE,
             readBeyond |-> FALSE, typeMissing |-> FALSE]

InitState ==
  /\ mpc = "header"
  /\ filePos = 0
  /\ typeParsingActive = FALSE
  /\ aType = NewStatisticsType
  /\ statsTypeList = <<>>
  /\ statFrameSize = <<-1, -1>>
  /\ parsingError = NoError
  /\ fileSortedByPOC = FALSE
  /\ maxPOC = 0
  /\ backgroundParserProgress = <<0, 1>>
  /\ blockOutsideOfFrame_idx = -1
  /\ startEndFrame = <<-1, -1>>
  /\ pocTypeStartList = EmptyMap
  /\ statsCache = EmptyMap
  /\ chartCache = EmptyMap
  /\ cancelBackgroundParser = FALSE
  /\ backgroundParserFuture = 0
  /\ pass = [p \in Passes |-> IdlePass]
  /\ mLockStatAccess = "none"
  /\ lpc = "idle"
  /\ lFrame = 0
  /\ lType = 0
  /\ inPos = 0
  /\ crashed = FALSE
  /\ nReloads = 0
  /\ nLoads = 0
  /\ chartCall = NoChartCall

InitWith(F) ==
  /\ fileBytes \in F
  /\ parsingBufferSize = STAT_PARSING_BUFFER_SIZE
  /\ hist = NewHist(<<>>)
  /\ InitState

\* ------------------------------------------------------------- input files
POCs == 0..MaxPOC
BodyLines == {DataLine(poc, type) : poc \in POCs, type \in Types}
\* Longer files: two in which a POC has lines of type 1, of type 2 and of
\* type 1 again, before and after another POC; an interleaved one in which
\* a POC returns with a typeID it had no lines of; a sequential one sorted
\* by type; one in which a pair returns and a line of a new pair follows.
LongBodies ==
  {<<DataLine(0, 1), DataLine(0, 2), DataLine(0, 1), DataLine(1, 1)>>,
   <<DataLine(1, 1), DataLine(0, 1), DataLine(0, 2), DataLine(0, 1)>>,
   <<DataLine(0, 1), DataLine(0, 2), DataLine(1, 1), DataLine(2, 1), DataLine(1, 2)>>,
   <<DataLine(0, 1), DataLine(1, 1), DataLine(2, 1), DataLine(0, 2), DataLine(1, 2)>>,
   <<DataLine(0, 1), DataLine(1, 1), DataLine(0, 1), DataLine(1, 2)>>}
IndexFiles == FilesOf(StdHeader, SeqsUpTo(BodyLines, MaxLines) \cup LongBodies)

\* Files for the loader: sequential and interleaved ones, one whose second
\* run of (0, 1) the pass does not notice, one the pass rejects, an empty
\* body, one with records whose kind is not the kind of their type, one with
\* an empty line, one with the records of lines.
LoadBodies ==
  {<<>>,
   <<DataLine(0, 1), DataLine(0, 1), DataLine(1, 1), DataLine(0, 2)>>,
   <<DataLine(0, 1), DataLine(0, 2), DataLine(0, 1), DataLine(1, 2)>>,
   <<DataLine(0, 1), DataLine(1, 1), DataLine(0, 2), DataLine(0, 1)>>,
   <<DataLine(0, 2), DataLine(1, 2), DataLine(0, 2)>>,
   <<VectorLine(0, 1), ValueLine(0, 2), ValueLine(1, 1)>>,
   <<DataLine(0, 1), <<>>, DataLine(0, 1), DataLine(1, 1)>>,
   <<LineLine(0, 2), VectorLine(0, 2), LineLine(1, 1)>>}
LoadFiles == FilesOf(StdHeader, LoadBodies)

\* Files for the runs with reloads and with concurrent loads.
ConcBodies ==
  {<<DataLine(0, 1), DataLine(0, 2), DataLine(1, 1), DataLine(1, 2)>>,
   <<DataLine(0, 1), DataLine(1, 1), DataLine(1, 2), DataLine(0, 1)>>,
   <<DataLine(0, 1), DataLine(0, 2), DataLine(1, 2), DataLine(0, 2)>>}
ConcFiles == FilesOf(StdHeader, ConcBodies)

\* Headers of type records only, then a data line, then perhaps a further
\* type record that is not part of the header.
MaxTypes == 2
TypeKinds == {<<>>, W_map, W_range, W_vector, W_line}
TypeDecls == [id : Types, name : {<<"a">>}, kind : TypeKinds]
RenderDecl(d) ==
  IF d.kind = <<>> THEN TypeRecord4(d.id, d.name)
  ELSE TypeRecord(d.id, d.name, d.kind)
RenderHeader(decls, tail) ==
  Flatten([k \in 1..Len(decls) |-> RenderDecl(decls[k])]
          \o <<DataLine(0, 1)>> \o tail)
HeaderTails == {<<>>, <<TypeRecord(1, <<"c">>, W_map), DataLine(0, 1)>>}

\* Header records with fewer fields than their kind reads, one of each kind,
\* and records of a single field; each after a complete type record and as
\* the first line of the file.
ShortHeaderRecords ==
  {Join(<<<<"%">>, W_type, Num(1)>>),
   Join(<<<<"%">>, W_mapColor, Num(1), Num(2)>>),
   Join(<<<<"%">>, W_range, Num(0), Num(1)>>),
   Join(<<<<"%">>, W_defaultRange, Num(0)>>),
   Join(<<<<"%">>, W_vectorColor, Num(1)>>),
   Join(<<<<"%">>, W_gridColor, Num(1)>>),
   Join(<<<<"%">>, W_scaleFactor>>),
   Join(<<<<"%">>, W_scaleToBlockSize>>),
   Join(<<<<"%">>, W_seqSpecs, <<"a">>, Num(0)>>),
   <<"%">>,
   Num(7)}
ShortHeaderFiles ==
  {Flatten(<<TypeRecord(1, <<"a">>, W_map), r, DataLine(0, 1)>>) :
     r \in ShortHeaderRecords}
  \cup {Flatten(<<r, TypeRecord(1, <<"a">>, W_map), DataLine(0, 1)>>) :
          r \in ShortHeaderRecords}

\* Body lines without the typeID field, after and before complete lines.
ShortBodyLines ==
  {Join(<<Num(1), Num(0), Num(0), Num(4), Num(4)>>),
   Join(<<Num(1), Num(0)>>)}
ShortBodyFiles ==
  {Flatten(StdHeader \o <<DataLine(0, 1), l, DataLine(1, 2)>>) :
     l \in ShortBodyLines}
  \cup {Flatten(StdHeader \o <<l, DataLine(1, 2)>>) : l \in ShortBodyLines}

\* --------------------------------------------------------- specifications
\* Construction and one complete indexing pass, for every file.
InitIndex == InitWith(IndexFiles)
NextIndex ==
  \/ HeaderLine
  \/ StartPass
  \/ \E p \in Passes : IdxReadChunk(p)
  \/ \E p \in Passes : IdxScanLine(p)
  \/ \E p \in Passes : IdxEndChunk(p)
  \/ \E p \in Passes : IdxFinish(p)
SpecIndex == InitIndex /\ [][NextIndex]_vars

\* Construction and the indexing pass for files with records that are too
\* short.
InitShort == InitWith(ShortHeaderFiles \cup ShortBodyFiles)
SpecShort == InitShort /\ [][NextIndex]_vars

\* Construction for the headers of type records.
InitHeader ==
  /\ \E decls \in SeqsUpTo(TypeDecls, MaxTypes), tail \in HeaderTails :
        /\ fileBytes = RenderHeader(decls, tail)
        /\ hist = NewHist(decls)
  /\ parsingBufferSize = STAT_PARSING_BUFFER_SIZE
  /\ InitState
SpecHeader == InitHeader /\ [][NextIndex]_vars

\* Construction, a complete indexing pass, and loads once the pass is over.
LoadAfterPass(frame, typeID) == ~FutureIsRunning /\ LoadBegin(frame, typeID)
InitLoad == InitWith(LoadFiles)
NextLoad ==
  \/ NextIndex
  \/ \E frame \in POCs, typeID \in Types : LoadAfterPass(frame, typeID)
  \/ LoadLine
SpecLoad == InitLoad /\ [][NextLoad]_vars

\* Files with records the loader does not expect, each behind a complete
\* line of the frame: a value and a vector record of the typeID 3, which no
\* type record declares, records of 6 and of 9 fields, and a record of 5 fields,
\* which the loader meets as the last line without newline.
RecordBodies ==
  {<<DataLine(0, 1), DataLine(1, 1)>>,
   <<DataLine(0, 1), ValueLine(0, 3)>>,
   <<DataLine(0, 1), VectorLine(0, 3)>>,
   <<DataLine(0, 1), Join(<<Num(0), Num(0), Num(0), Num(4), Num(4), Num(1)>>)>>,
   <<DataLine(0, 2), Join(<<Num(0), Num(0), Num(0), Num(4), Num(4), Num(2),
                            Num(1), Num(2), Num(3)>>)>>,
   <<DataLine(0, 1), Join(<<Num(0), Num(0), Num(0), Num(4), Num(4)>>)>>}
RecordFiles == FilesOf(StdHeader, RecordBodies)
InitRecords == InitWith(RecordFiles)
SpecRecords == InitRecords /\ [][NextLoad]_vars

\* The same, with the caller of loadStatisticToCache running the call on:
\* the call blocks on nothing but the mutex, which it holds itself.
FairSpecLoad == SpecLoad /\ WF_vars(LoadLine)

\* Loads and charts after the passes, and reloads.
CacheBodies ==
  {<<DataLine(0, 1), DataLine(0, 2), DataLine(1, 1)>>,
   <<DataLine(0, 1), DataLine(1, 1), DataLine(0, 1)>>}
CacheFiles == FilesOf(StdHeader, CacheBodies)
InitCache == InitWith(CacheFiles)
NextCache ==
  \/ NextLoad
  \/ \E frame \in POCs, typeID \in Types :
        ~FutureIsRunning /\ sortAndCategorizeDataByRange(<<frame, frame>>, typeID)
  \/ GroupData
  \/ OrderValues
  \/ OrderVectors
  \/ Categorized
  \/ ReloadReset
  \/ ReloadCheck
  \/ ReloadWait
  \/ ReloadClear
SpecCache == InitCache /\ [][NextCache]_vars

\* Files that declare a frame of 8 x 8: blocks inside of it, blocks that
\* reach beyond its right and its lower edge, in the first frame, in a later
\* frame and in both.
FrameHeader == <<SeqSpecsRecord(8, 8)>> \o StdHeader
FrameBodies ==
  {<<BlockLine(0, 0, 0, 4, 4, 1), BlockLine(1, 4, 4, 4, 4, 1)>>,
   <<BlockLine(0, 0, 0, 4, 4, 1), BlockLine(0, 4, 0, 8, 4, 1), BlockLine(1, 0, 8, 4, 4, 1)>>,
   <<BlockLine(0, 4, 4, 4, 4, 1), BlockLine(1, 0, 4, 4, 8, 2), BlockLine(1, 0, 0, 4, 4, 2)>>}
FrameFiles == FilesOf(FrameHeader, FrameBodies)
InitFrame == InitWith(FrameFiles)
SpecFrame == InitFrame /\ [][NextCache]_vars

\* Charts of one frame and of ranges, after the pass and among loads of the
\* handler. The files are sequential; their blocks differ in size, so that
\* the labels differ in the order of their widths ("16x4" is before "8x8" as
\* a string), have equal widths, and repeat within a frame and across the
\* frames.
StatLine(poc, w, h, type, value) ==
  Join(<<Num(poc), Num(0), Num(0), Num(w), Num(h), Num(type)>>
       \o (IF type = 2 THEN <<Num(value), Num(2)>> ELSE <<Num(value)>>))
ChartBodies ==
  {<<StatLine(0, 16, 4, 1, 5), StatLine(0, 8, 8, 1, 5), StatLine(0, 8, 4, 1, 7),
     StatLine(0, 8, 8, 1, 5), StatLine(1, 8, 8, 1, 5)>>,
   <<StatLine(0, 8, 4, 2, 1), StatLine(0, 4, 4, 2, 1), StatLine(1, 4, 4, 2, 3),
     StatLine(1, 4, 4, 2, 1)>>,
   <<StatLine(0, 4, 4, 1, 5), StatLine(1, 4, 4, 1, 5), StatLine(1, 4, 4, 2, 1)>>}
ChartFiles == FilesOf(StdHeader, ChartBodies)
Ranges == {r \in POCs \X POCs : r[1] <= r[2]}
InitChart == InitWith(ChartFiles)
NextChart ==
  \/ NextLoad
  \/ \E frame \in POCs, typeID \in Types :
        ~FutureIsRunning /\ sortAndCategorizeData(frame, typeID)
  \/ \E aRange \in Ranges, typeID \in Types :
        ~FutureIsRunning /\ sortAndCategorizeDataByRange(aRange, typeID)
  \/ GroupData
  \/ OrderValues
  \/ OrderVectors
  \/ Categorized
SpecChart == InitChart /\ [][NextChart]_vars

\* The pass alone, for builds with buffers of several sizes: a few bytes,
\* the length of a data line, the size of the other specifications, and
\* more than a whole file.
BufferSizes == {5, 14, STAT_PARSING_BUFFER_SIZE, 128}
InitChunk ==
  /\ fileBytes \in IndexFiles
  /\ parsingBufferSize \in BufferSizes
  /\ hist = NewHist(<<>>)
  /\ InitState
SpecChunk == InitChunk /\ [][NextIndex]_vars

\* Loads while the indexing pass runs.
InitRace == InitWith(ConcFiles)
NextRace ==
  \/ NextIndex
  \/ \E frame \in POCs, typeID \in Types : LoadBegin(frame, typeID)
  \/ LoadLine
SpecRace == InitRace /\ [][NextRace]_vars

\* The indexing pass with reloads and the destruction of the item.
Init == InitWith(ConcFiles)
Next ==
  \/ NextIndex
  \/ ReloadReset
  \/ ReloadCheck
  \/ ReloadWait
  \/ ReloadClear
  \/ DtorCheck
  \/ DtorWait
Spec == Init /\ [][Next]_vars

\* A step of the function run by QtConcurrent::run (line 69, line 729)
PassStep ==
  \E p \in Passes :
    IdxReadChunk(p) \/ IdxScanLine(p) \/ IdxEndChunk(p) \/ IdxFinish(p)

\* The thread pool keeps running the function it was given until the
\* function returns, and a thread blocked in waitForFinished is woken once
\* the future has finished.
FairSpec ==
  /\ Init
  /\ [][Next]_vars
  /\ WF_vars(PassStep)
  /\ WF_vars(ReloadWait)
  /\ WF_vars(DtorWait)

\* ------------------------------------------------------------------ claims
\* The pass of the constructor has returned.
PassOver == pass[1].pc = "done"

\* Equal keys of a sequence are next to each other.
ContiguousKeys(ks) ==
  \A i, k \in 1..Len(ks) :
    (i < k /\ ks[i] = ks[k]) => \A j \in i..k : ks[j] = ks[i]
PairsOf(recs) == [k \in 1..Len(recs) |-> <<recs[k].poc, recs[k].type>>]
POCsOf(recs) == [k \in 1..Len(recs) |-> recs[k].poc]
TypesOf(recs) == [k \in 1..Len(recs) |-> recs[k].type]

\* The file is strictly sequential: the lines of each pair, of each POC and
\* of each type are contiguous.
StrictlySequential ==
  /\ ContiguousKeys(PairsOf(DataRecs))
  /\ ContiguousKeys(POCsOf(DataRecs))
  /\ ContiguousKeys(TypesOf(DataRecs))

\* The index that holds, for every pair of recs, the start of its first line.
FirstStart(recs, poc, type) ==
  SetMin({recs[k].start : k \in {n \in 1..Len(recs) :
                                    recs[n].poc = poc /\ recs[n].type = type}})
FirstLineIndex(recs) ==
  [poc \in {recs[k].poc : k \in 1..Len(recs)} |->
     [type \in {recs[k].type : k \in {n \in 1..Len(recs) : recs[n].poc = poc}} |->
        FirstStart(recs, poc, type)]]

\* The first line of recs that differs from the line before it in POC or
\* typeID has the POC of the line before it.
FirstChangeKeepsPOC(recs) ==
  \E k \in 2..Len(recs) :
    /\ \A j \in 1..(k - 1) : recs[j].poc = recs[1].poc /\ recs[j].type = recs[1].type
    /\ recs[k].poc = recs[1].poc
    /\ recs[k].type # recs[1].type

\* Every data line of the file ends with a newline.
AllTerminated == Len(TerminatedRecs) = Len(DataRecs)

\* C1 as stated, for the files whose lines all end with a newline: for a
\* strictly sequential file the complete pass ends with fileSortedByPOC
\* false, without error, and with exactly one index entry per (POC, typeID)
\* pair of the file, the offset of the pair's first line.
C1_SequentialAsClaimed ==
  (PassOver /\ StrictlySequential /\ AllTerminated) =>
    /\ fileSortedByPOC = FALSE
    /\ parsingError = NoError
    /\ pocTypeStartList = FirstLineIndex(DataRecs)

\* C1 amended: for a strictly sequential file the complete pass ends without
\* error and with exactly one index entry per (POC, typeID) pair that has a
\* newline-terminated line, the offset of the pair's first line;
\* fileSortedByPOC is true exactly when the first terminated data line that
\* differs from its predecessor keeps the POC and changes the typeID.
C1_SequentialIndexed ==
  (PassOver /\ StrictlySequential) =>
    /\ parsingError = NoError
    /\ pocTypeStartList = FirstLineIndex(TerminatedRecs)
    /\ fileSortedByPOC = FirstChangeKeepsPOC(TerminatedRecs)

\* A strictly sequential file of two POCs and two types has been indexed.
C1_Witness ==
  /\ PassOver /\ StrictlySequential
  /\ Len(DataRecs) >= 3
  /\ Cardinality({DataRecs[k].poc : k \in 1..Len(DataRecs)}) = 2
  /\ Cardinality({DataRecs[k].type : k \in 1..Len(DataRecs)}) = 2
  /\ Cardinality(DOMAIN pocTypeStartList) = 2
  /\ ~fileSortedByPOC

\* POC poc has lines of type a, then of type b, then of type a again.
HasABA(recs, poc, a, b) ==
  /\ a # b
  /\ \E i, j, k \in 1..Len(recs) :
       /\ i < j /\ j < k
       /\ recs[i].poc = poc /\ recs[j].poc = poc /\ recs[k].poc = poc
       /\ recs[i].type = a /\ recs[j].type = b /\ recs[k].type = a
ABAs ==
  LET pocs == {DataRecs[k].poc : k \in 1..Len(DataRecs)}
      types == {DataRecs[k].type : k \in 1..Len(DataRecs)}
  IN {x \in pocs \X types \X types : HasABA(DataRecs, x[1], x[2], x[3])}
Interleaved == ABAs # {} /\ ContiguousKeys(POCsOf(DataRecs))
FirstOffsetsKept ==
  \A x \in ABAs :
    /\ HasEntry(pocTypeStartList, x[1], x[2])
    /\ HasEntry(pocTypeStartList, x[1], x[3])
    /\ pocTypeStartList[x[1]][x[2]] = FirstStart(DataRecs, x[1], x[2])
    /\ pocTypeStartList[x[1]][x[3]] = FirstStart(DataRecs, x[1], x[3])

C3_SequentialRepeatIsError ==
  hist.seqRepeat => (PassOver /\ parsingError = ErrSequential)

\* (p, t), then another POC, then (p, t) again has ended in that error.
C3_Witness ==
  /\ hist.seqRepeat /\ PassOver /\ parsingError = ErrSequential
  /\ \E k \in 3..Len(DataRecs) :
       /\ DataRecs[k].poc = DataRecs[k - 2].poc
       /\ DataRecs[k].type = DataRecs[k - 2].type
       /\ DataRecs[k].poc # DataRecs[k - 1].poc

\* C4: in Interleaved mode a data line whose POC differs from the POC of the
\* data line before it and whose POC has an entry in the index already, for
\* whatever typeID, ends the pass with the 'POC must be continuous' error.
C4_InterleavedRepeatIsError ==
  hist.ilvRepeat => (PassOver /\ parsingError = ErrInterleaved)

\* A POC has returned with a typeID it had no entry for, and that was an error.
C4_Witness ==
  /\ hist.ilvRepeat /\ PassOver /\ parsingError = ErrInterleaved
  /\ \E k \in 1..Len(DataRecs) :
       /\ DataRecs[k].poc \in DOMAIN pocTypeStartList
       /\ ~HasEntry(pocTypeStartList, DataRecs[k].poc, DataRecs[k].type)

\* The records of the cache entry of a type.
RecordCount(cache, type) ==
  Len(CacheAt(cache, type).valueData) + Len(CacheAt(cache, type).vectorData)

\* The data lines of the file with the POC and the typeID.
LinesOfPair(poc, type) ==
  Cardinality({k \in 1..Len(DataRecs) :
                 DataRecs[k].poc = poc /\ DataRecs[k].type = type})

\* A load of a pair of the index into empty caches has returned, after a
\* complete pass without error.
LoadedFromIndex ==
  /\ PassOver /\ parsingError = NoError /\ ~crashed
  /\ nLoads > 0 /\ lpc = "idle"
  /\ hist.freshLoad /\ ~hist.loadedAbsent

OthersKept(cache, before) ==
  /\ DOMAIN cache = DOMAIN before \cup {lType}
  /\ \A t \in DOMAIN before : t # lType => cache[t] = before[t]

\* C6: a load of a pair without entry in the index puts an empty entry under
\* the type in both caches, whatever was there, and leaves the entries of the
\* other types and the index as they were.
C6_AbsentPairGetsEmptyEntry ==
  (nLoads > 0 /\ lpc = "idle" /\ hist.loadedAbsent) =>
    /\ lType \in DOMAIN statsCache /\ statsCache[lType] = EmptyData
    /\ lType \in DOMAIN chartCache /\ chartCache[lType] = EmptyData
    /\ OthersKept(statsCache, hist.before)
    /\ OthersKept(chartCache, hist.chartBefore)
    /\ pocTypeStartList = hist.indexBefore

\* Such a load has replaced an entry with records and kept that of another
\* type.
C6_Witness ==
  /\ nLoads > 0 /\ lpc = "idle" /\ hist.loadedAbsent
  /\ lType \in DOMAIN hist.before /\ hist.before[lType] # EmptyData
  /\ statsCache[lType] = EmptyData
  /\ \E t \in DOMAIN statsCache : t # lType /\ statsCache[t] # EmptyData
  /\ pocTypeStartList # EmptyMap

\* The pass that was told to stop while it ran has returned, and the caller
\* still waits for it.
CancelledPassOver ==
  /\ mpc \in {"reload_wait", "dtor_wait"}
  /\ hist.cancelSeen[backgroundParserFuture]
  /\ pass[backgroundParserFuture].pc = "done"

\* The entries the index had when the flag was set are in it, unchanged.
EntriesAtCancelKept ==
  \A poc \in DOMAIN hist.indexAtCancel :
    \A type \in DOMAIN hist.indexAtCancel[poc] :
      /\ HasEntry(pocTypeStartList, poc, type)
      /\ pocTypeStartList[poc][type] = hist.indexAtCancel[poc][type]

\* C7 as stated: a pass told to stop while it runs starts no further chunk,
\* keeps the index entries it had recorded, and parsingError stays empty.
C7_CancelAsClaimed ==
  (CancelledPassOver /\ hist.errorAtCancel = NoError) =>
    /\ hist.chunksAfterCancel = 0
    /\ EntriesAtCancelKept
    /\ parsingError = NoError

\* C7 amended: a pass told to stop while it runs starts no further chunk and
\* keeps the index entries it had recorded; parsingError stays as it was,
\* unless a line in the rest of the chunk being scanned breaks the continuity
\* of the layout, which ends the pass there with that error.
C7_CancelStopsPass ==
  /\ hist.chunksAfterCancel = 0
  /\ CancelledPassOver =>
       /\ EntriesAtCancelKept
       /\ IF hist.threwAfterCancel[backgroundParserFuture]
          THEN parsingError \in {ErrInterleaved, ErrSequential}
          ELSE parsingError = hist.errorAtCancel

\* A pass was told to stop with entries in the index and part of the file
\* unread, and has returned without error before the end of the file.
C7_Witness ==
  /\ CancelledPassOver
  /\ hist.indexAtCancel # EmptyMap
  /\ ~pass[backgroundParserFuture].fileAtEnd
  /\ parsingError = NoError

\* The passes that are running.
ActivePasses == {p \in Passes : pass[p].pc \in {"loop", "scan"}}

\* C10: two passes are never active at once, reloadItemSource clears the
\* index only when no pass runs, and it starts the new pass only after it
\* has cleared.
C10_OnePassAtATime ==
  /\ Cardinality(ActivePasses) <= 1
  /\ ~hist.clearedWhileRunning
  /\ backgroundParserFuture <= hist.clears + 1

\* A reload has stopped a running pass, cleared, and started the next pass.
C10_Witness ==
  /\ hist.cancelSeen[1]
  /\ hist.clears = 1
  /\ backgroundParserFuture = 2
  /\ ActivePasses = {2}

\* C9 as stated: the indexing pass never writes pocTypeStartList or
\* fileSortedByPOC while a call of loadStatisticToCache holds mLockStatAccess,
\* between its lookup in the index and its last write to the caches.
C9_IndexWritesUnderLock == ~hist.indexWrittenInLoad

\* The type a type record declares.
DeclaredType(d) ==
  [NewStatisticsType EXCEPT
     !.typeID = d.id,
     !.typeName = d.name,
     !.hasValueData = d.kind \in {W_map, W_range},
     !.renderValueData = d.kind \in {W_map, W_range},
     !.hasVectorData = d.kind \in {W_vector, W_line},
     !.renderVectorData = d.kind \in {W_vector, W_line},
     !.arrowHead = IF d.kind = W_line THEN "none" ELSE "arrow"]
DeclaredTypes == [k \in 1..Len(hist.declared) |-> DeclaredType(hist.declared[k])]

\* readHeaderFromFile has returned, for a header of one or more type records.
HeaderRead == mpc # "header" /\ ~crashed /\ Len(hist.declared) >= 1

\* The first data line of the file.
FirstDataLine == DataRecs[1]

NewPassAfterCancel ==
  /\ hist.cancelSeen[1]
  /\ backgroundParserFuture = 2
  /\ pass[2].pc \in {"loop", "scan"}
  /\ IsFirstLine(pass[2].lastType, pass[2].lastPOC)

\* C11 as stated: when reloadItemSource has started the new pass after it
\* found the old one running, and until the new pass has processed its first
\* data line, fileSortedByPOC is false, maxPOC is 0, parsingError is empty
\* and backgroundParserProgress is 0.
C11_ReloadLeavesDefaults ==
  NewPassAfterCancel =>
    /\ fileSortedByPOC = FALSE
    /\ maxPOC = 0
    /\ parsingError = NoError
    /\ backgroundParserProgress[1] = 0


\* The destructor or reloadItemSource is blocked in waitForFinished.
Joining == mpc \in {"reload_wait", "dtor_wait"}

\* The destructor or reloadItemSource has left its if statement.
Proceeded == mpc \in {"reload_clear", "destroyed"}

\* C12: a destructor or reload that finds the pass running sets
\* cancelBackgroundParser and is past waitForFinished only when no pass is
\* active; the pass reads no chunk after the flag was set; under fair
\* scheduling the waiting destructor or reload eventually proceeds; and the
\* passes started before the current one, and every pass once the item is
\* destroyed, have returned, so they read and write nothing any more.
C12_CancelJoinsPass ==
  /\ [](Joining => /\ cancelBackgroundParser
                   /\ hist.cancelSeen[backgroundParserFuture])
  /\ [](Proceeded => ActivePasses = {})
  /\ [](hist.chunksAfterCancel = 0)
  /\ [](\A q \in Passes :
         (q < backgroundParserFuture \/ mpc = "destroyed")
            => pass[q].pc \in {"done", "unused"})
  /\ (Joining ~> Proceeded)

\* The destructor found the pass running, waited, and has proceeded after
\* the pass returned before the end of the file.
C12_Witness ==
  /\ mpc = "destroyed"
  /\ hist.cancelSeen[backgroundParserFuture]
  /\ pass[backgroundParserFuture].pc = "done"
  /\ ~pass[backgroundParserFuture].fileAtEnd


\* The pass of the constructor has read a data line that breaks the
\* continuity of the layout.
ViolationMet == hist.violationPass = 1

\* C13: when the pass reads a data line that breaks the continuity of the
\* layout it processes no further line and has returned, parsingError is not
\* empty, and the index is as it was before that line: every entry recorded
\* before is kept with its offset, and no entry is added or changed.
C13_ViolationEndsPass ==
  ViolationMet =>
    /\ PassOver
    /\ hist.linesAfterViolation = 0
    /\ parsingError # NoError
    /\ pocTypeStartList = hist.indexAtViolation

\* The pass has ended at a line that breaks the continuity, with entries in
\* the index and with a data line left in the file whose pair has no entry.
C13_Witness ==
  /\ ViolationMet /\ PassOver
  /\ hist.indexAtViolation # EmptyMap
  /\ \E k \in 1..Len(DataRecs) :
       /\ DataRecs[k].start > hist.violationAt
       /\ IsTerminated(DataRecs[k])
       /\ ~HasEntry(pocTypeStartList, DataRecs[k].poc, DataRecs[k].type)


\* A header record of a recognised kind with fewer fields than the kind
\* reads, or a record that is one non-empty field.
IsShortHeaderRecord(raw) ==
  /\ Field(raw, 0) # <<>>
  /\ \/ Count(raw) = 1
     \/ /\ Field(raw, 0)[1] = "%"
        /\ HeaderLastFieldRead(raw) > 1
        /\ HeaderLastFieldRead(raw) >= Count(raw)

\* readHeaderFromFile has read such a record.
ShortHeaderRecordRead ==
  \E k \in 1..Len(LinesFrom(fileBytes, 0)) :
    /\ LinesFrom(fileBytes, 0)[k].start < filePos
    /\ IsShortHeaderRecord(parseCSVLine(LinesFrom(fileBytes, 0)[k].text, ";"))

\* C14 as stated: when readHeaderFromFile has read a header record of a
\* recognised kind with fewer fields than that kind reads, or a non-empty
\* record of a single field, it has read no field at or beyond the record's
\* field count, and it ends with a non-empty parsingError.
C14_ShortHeaderRecordIsError ==
  ShortHeaderRecordRead =>
    /\ ~hist.headerReadBeyond
    /\ mpc # "header" => parsingError # NoError

\* The pass of the constructor has come to a body line without typeID field:
\* it is past the line, or the program has stopped at it.
ShortBodyLineMet ==
  /\ pass[1].pc # "unused"
  /\ \E k \in 1..Len(DataRecs) :
       /\ DataRecs[k].type = INT_INVALID
       /\ IsTerminated(DataRecs[k])
       /\ \/ pass[1].lineBufferStartPos > DataRecs[k].start
          \/ crashed /\ pass[1].lineBufferStartPos = DataRecs[k].start

\* C15 as stated, for the files whose header was read within the counts of
\* its records: when the indexing pass meets a non-empty body line that is
\* no header record and has fewer than 6 fields, it reads no field at or
\* beyond the line's field count and ends with a non-empty parsingError.
C15_ShortBodyLineIsError ==
  (ShortBodyLineMet /\ ~hist.headerReadBeyond) =>
    /\ ~hist.indexReadBeyond
    /\ parsingError # NoError


\* C16 as stated: loadStatisticToCache adds nothing to either cache for a
\* vector or line record of a type without hasVectorData or for a scalar
\* record of a type without hasValueData.
C16_MismatchedRecordDropped == ~hist.mismatchAdded


\* A load of a pair of the index is under way or has returned, for a file
\* found to be interleaved by a complete pass.
InterleavedLoad ==
  /\ PassOver /\ fileSortedByPOC
  /\ nLoads > 0 /\ ~hist.loadedAbsent

\* The entries of the types other than typeID are as they were before the
\* call.
OtherTypesUnchanged(cache, before) ==
  \A t \in (DOMAIN cache \cup DOMAIN before) \ {lType} :
    /\ t \in DOMAIN cache /\ t \in DOMAIN before
    /\ cache[t] = before[t]

\* C17 as stated, for records whose kind matches their type: in Interleaved
\* mode loadStatisticToCache(frame, typeID) leaves the entries of all types
\* other than typeID unchanged in both caches.
C17_InterleavedLoadKeepsOthers ==
  (InterleavedLoad /\ ~hist.mismatchAdded) =>
    /\ OtherTypesUnchanged(statsCache, hist.before)
    /\ OtherTypesUnchanged(chartCache, hist.chartBefore)


\* loadStatisticToCache has returned from its second call in a row for one
\* pair of the index, the first call having started on empty caches after a
\* complete pass without error.
LoadedTwice ==
  /\ PassOver /\ parsingError = NoError /\ ~crashed
  /\ lpc = "idle" /\ hist.repeatedLoad

\* C18 as stated, for two calls in a row: the second call of
\* loadStatisticToCache for a pair of the index leaves the entry of the type
\* as the first call left it, in both caches.
C18_LoadTwiceSameEntry ==
  LoadedTwice =>
    /\ CacheAt(statsCache, lType) = CacheAt(hist.before, lType)
    /\ CacheAt(chartCache, lType) = CacheAt(hist.chartBefore, lType)


\* reloadItemSource has cleared the parsed data and has not yet read a line
\* of the header: lines 711-714 are done and nothing else.
JustCleared == hist.clears > 0 /\ mpc = "header" /\ filePos = 0

\* C19 as stated: when reloadItemSource has cleared the parsed data,
\* pocTypeStartList, statSource.statsCache and chartStatSource.statsCache
\* are empty.
C19_ReloadClearsAll ==
  JustCleared =>
    /\ pocTypeStartList = EmptyMap
    /\ statsCache = EmptyMap
    /\ chartCache = EmptyMap

\* C20 as stated: statSource.statsCache and chartStatSource.statsCache hold
\* the same keys and the same records whenever no call of
\* loadStatisticToCache, reloadItemSource or sortAndCategorizeDataByRange is
\* under way and no pass runs.
C20_CachesEqual ==
  (mpc = "idle" /\ lpc = "idle" /\ chartCall.pc = "none" /\ ~FutureIsRunning)
  => statsCache = chartCache

\* C24 as stated: while a pass runs with sortingFixed true, fileSortedByPOC
\* is what the line that fixed the layout made it: true when that line was
\* the first type change within a POC, false when it was the first POC
\* change. It is therefore not changed after that line.
LayoutFixed(p) == pass[p].pc \in {"loop", "scan"} /\ pass[p].sortingFixed
C24_LayoutFixedOnce ==
  \A p \in Passes :
     LayoutFixed(p) => fileSortedByPOC = (hist.fixedBy[p] = "type")

\* The first data line that differs from the line before it changes the
\* POC, which fixes the Sequential layout; a later POC has lines of type A,
\* of type B and of type A again.
StartsSequential(recs) ==
  \E k \in 2..Len(recs) :
    /\ \A j \in 1..(k - 1) : recs[j].poc = recs[1].poc /\ recs[j].type = recs[1].type
    /\ recs[k].poc # recs[1].poc
SequentialThenAlternates == StartsSequential(DataRecs) /\ ABAs # {}

\* The first change keeps the POC, which fixes the Interleaved layout; a
\* later line returns to a POC that has lines before another POC.
InterleavedThenReturns ==
  FirstChangeKeepsPOC(DataRecs) /\ ~ContiguousKeys(POCsOf(DataRecs))

LayoutViolationErrors == {ErrInterleaved, ErrSequential}

\* C25 as stated: the pass over a file that starts in one layout and goes on
\* in the other ends with one of the two layout errors. Stated for files
\* whose lines all end with a newline, so that the pass reads every line.
C25_MixedLayoutIsError ==
  (PassOver /\ AllTerminated
     /\ (SequentialThenAlternates \/ InterleavedThenReturns)) =>
    parsingError \in LayoutViolationErrors

\* A call of loadStatisticToCache for a pair of the index.
LoadOfIndexed == nLoads > 0 /\ ~hist.loadedAbsent /\ ~crashed

\* Where the claim has the call start and stop: the stop is the first line
\* with a non-empty first field, from the start on, whose POC is not the
\* frame or, in Sequential mode, whose typeID is not the type; the end of
\* the file when there is none.
ExpectedStart ==
  IF fileSortedByPOC
  THEN SetMin({pocTypeStartList[lFrame][t] : t \in DOMAIN pocTypeStartList[lFrame]})
  ELSE pocTypeStartList[lFrame][lType]
StopsLoad(r) == r.poc # lFrame \/ (~fileSortedByPOC /\ r.type # lType)
ExpectedStop(from) ==
  LET stops == {DataRecs[k].start :
                  k \in {n \in 1..Len(DataRecs) :
                           DataRecs[n].start >= from /\ StopsLoad(DataRecs[n])}}
  IN IF stops = {} THEN Len(fileBytes) ELSE SetMin(stops)
LinesBetween(from, to) ==
  Cardinality({k \in 1..Len(DataRecs) :
                 DataRecs[k].start >= from /\ DataRecs[k].start < to})

LoadStartsAndStops ==
  LoadOfIndexed =>
    /\ hist.loadStart = ExpectedStart
    /\ lpc = "idle" =>
         /\ hist.stopLine = ExpectedStop(hist.loadStart)
         /\ hist.decoded = LinesBetween(hist.loadStart, hist.stopLine)

\* C26: a load of an indexed pair starts at the offset of the pair in
\* Sequential mode and at the smallest offset of the frame in Interleaved
\* mode, adds every data line from there up to the first line of another
\* POC (in Sequential mode also of another typeID) or the end of the file,
\* stops there, and every call returns.
C26_LoadScansBlock ==
  /\ []LoadStartsAndStops
  /\ (lpc # "idle") ~> (lpc = "idle")

\* An Interleaved load that started before the offset of its own pair, added
\* two lines and stopped at a line of the next POC.
C26_Witness ==
  /\ LoadOfIndexed /\ lpc = "idle" /\ fileSortedByPOC
  /\ hist.loadStart < pocTypeStartList[lFrame][lType]
  /\ hist.decoded >= 2
  /\ hist.stopLine < Len(fileBytes)

\* C27 as stated: the record that a load has added last is a scalar value
\* when its line has 7 fields, a vector of 2 components when it has 8 and a
\* line of 4 components when it has 10, and it was not classified as both
\* vector and line.
C27_KindByFieldCount ==
  /\ hist.added.fields = 7 => hist.added.kind = "value"
  /\ hist.added.fields = 8 =>
        hist.added.kind = "vector" /\ hist.added.components = 2
  /\ hist.added.fields = 10 =>
        hist.added.kind = "line" /\ hist.added.components = 4
  /\ ~hist.added.both

\* The data line that the loader reads in this step, if it reads one that
\* it loads: a line of the frame and, in Sequential mode, of the type.
LoadStep == lpc # "idle" /\ inPos' # inPos
LoadedLines ==
  {k \in 1..Len(DataRecs) :
     /\ DataRecs[k].start = inPos
     /\ DataRecs[k].poc = lFrame
     /\ fileSortedByPOC \/ DataRecs[k].type = lType}
Exceeds(block) ==
  \/ block[1] + block[3] > statFrameSize[1]
  \/ block[2] + block[4] > statFrameSize[2]
LoadsBlockOutside == LoadStep /\ \E k \in LoadedLines : Exceeds(DataRecs[k].block)
ReloadResets == nReloads' = nReloads + 1 /\ blockOutsideOfFrame_idx' = -1

\* C28: a load step that loads a record whose block reaches beyond the
\* declared frame adds the record and goes on, and sets
\* blockOutsideOfFrame_idx to the frame of the call when it is -1; nothing
\* else changes blockOutsideOfFrame_idx but the reset of reloadItemSource.
C28_FirstBlockOutsideMarked ==
  [][/\ LoadsBlockOutside =>
          /\ statsCache' # statsCache
          /\ lpc' = lpc
          /\ blockOutsideOfFrame_idx' =
                IF blockOutsideOfFrame_idx = -1 THEN lFrame
                ELSE blockOutsideOfFrame_idx
     /\ blockOutsideOfFrame_idx' # blockOutsideOfFrame_idx =>
          \/ LoadsBlockOutside /\ blockOutsideOfFrame_idx = -1
          \/ ReloadResets]_vars

\* With a declared frame, a load of another frame has added a block that
\* reaches beyond it, and blockOutsideOfFrame_idx still names the frame of
\* the first one.
C28_Witness ==
  /\ statFrameSize = <<8, 8>>
  /\ blockOutsideOfFrame_idx # -1
  /\ lpc = "idle" /\ hist.decoded > 0
  /\ lFrame # blockOutsideOfFrame_idx
  /\ \E k \in 1..Len(DataRecs) :
        /\ DataRecs[k].poc = lFrame /\ DataRecs[k].type = lType
        /\ Exceeds(DataRecs[k].block)
        /\ DataRecs[k].start >= hist.loadStart /\ DataRecs[k].start < hist.stopLine

\* C29 as stated: while a pass runs, maxPOC is at least every POC of the
\* index; and the pass that has run to the end of the file without error has
\* published the range (0, maxPOC), with maxPOC the largest POC of the index
\* (0 for an empty index), and has set the progress to 100.
PassRuns == \E p \in Passes : pass[p].pc \in {"loop", "scan"}
RanToEndOfFile ==
  hist.finish.pass # 0 /\ hist.finish.atEnd /\ hist.finish.error = NoError
C29_MaxPOCBoundsIndex ==
  /\ PassRuns => \A poc \in DOMAIN pocTypeStartList : maxPOC >= poc
  /\ RanToEndOfFile =>
        /\ hist.finish.range = <<0, hist.finish.maxPOC>>
        /\ hist.finish.maxPOC = SetMax(hist.finish.indexed \cup {0})
        /\ hist.finish.progress = <<100, 1>>

\* C30 as stated: when readHeaderFromFile has returned it has read the first
\* data line of the file and no record after it, and the registry holds the
\* types declared before that line and no other, whether or not a type
\* record was open at that line.
C30_HeaderStopsAtFirstDataLine ==
  (mpc # "header" /\ ~crashed) =>
    /\ filePos = LineEnd(FirstDataLine.start)
    /\ statsTypeList = DeclaredTypes

\* C21 as stated: a call of sortAndCategorizeDataByRange for the range of
\* the one frame f and a call of sortAndCategorizeData for f, for the same
\* type and both with a defined list, return the same groups with the same
\* counts, whatever calls were made before either.
C21_OneFrameRangeIsSingle ==
  (/\ hist.single.made /\ hist.single.defined
   /\ hist.range.made /\ hist.range.defined
   /\ hist.range.first = hist.range.last
   /\ hist.range.first = hist.single.first
   /\ hist.range.typeID = hist.single.typeID)
  => hist.range.groups = hist.single.groups

\* The records of the file for the type in the frames first..last, as the
\* items the loader makes of them.
RecordsIn(typeID, first, last) ==
  SelectSeq(DataRecs,
            LAMBDA r : r.type = typeID /\ r.poc >= first /\ r.poc <= last)
\* the kind, label and value of a record of the file
KindOfType(typeID) ==
  IF GetStatisticsType(typeID).hasValueData THEN "value" ELSE "vector"
LabelOfRec(r) == LabelOf(r.block[3], r.block[4])
\* how many of the records have the label and the value
TrueCount(recs, label, value) ==
  Cardinality({k \in 1..Len(recs) :
                 LabelOfRec(recs[k]) = label /\ recs[k].value = value})
\* the amounts a list of groups has for the kind, label and value
AmountsOf(groups, kind, label, value) ==
  UNION {{<<g, k>> : k \in {j \in 1..Len(groups[g].mValues) :
                               groups[g].mValues[j][1] = value}} :
         g \in {i \in 1..Len(groups) :
                  groups[i].mStatDataType = kind /\ groups[i].mLabel = label}}

\* A range of more than one frame has returned, with defined lists.
RangeReturned ==
  /\ hist.range.made /\ hist.range.defined
  /\ hist.range.first < hist.range.last
RangeRecs == RecordsIn(hist.range.typeID, hist.range.first, hist.range.last)
RangeLabels == {LabelOfRec(RangeRecs[k]) : k \in 1..Len(RangeRecs)}
\* One group for every label of the records, of the kind of the type, and
\* no other group; every value of the records has one amount in its group.
RangeGroupsAreLabels ==
  LET groups == hist.range.groups
      kind == KindOfType(hist.range.typeID)
  IN /\ \A label \in RangeLabels :
          Cardinality({g \in 1..Len(groups) :
                         /\ groups[g].mLabel = label
                         /\ groups[g].mStatDataType = kind}) = 1
     /\ \A g \in 1..Len(groups) :
          /\ groups[g].mLabel \in RangeLabels
          /\ groups[g].mStatDataType = kind
     /\ \A k \in 1..Len(RangeRecs) :
          Cardinality(AmountsOf(groups, kind, LabelOfRec(RangeRecs[k]),
                                RangeRecs[k].value)) = 1
\* Every amount is the number of the records with the label and the value.
RangeAmountsAreCounts ==
  LET groups == hist.range.groups
  IN \A g \in 1..Len(groups) :
       \A k \in 1..Len(groups[g].mValues) :
         groups[g].mValues[k][2]
           = TrueCount(RangeRecs, groups[g].mLabel, groups[g].mValues[k][1])

\* C22 as stated: a call of sortAndCategorizeDataByRange for frames a..b,
\* a < b, returns one group for every label of the records of the type in
\* the frames, and in each group the amount of a value is the number of the
\* records of the frames with that label and value. Stated for files whose
\* lines all end with a newline.
C22_RangeSumsFrames ==
  (RangeReturned /\ AllTerminated)
  => (RangeGroupsAreLabels /\ RangeAmountsAreCounts)

\* sortAndCategorizeData has returned its list for a frame whose list was
\* defined.
FrameCategorized ==
  chartCall.pc = "categorized" /\ chartCall.listDefined /\ ~crashed
WidthOf(group) == toInt(NumberString(group.mLabel))
RECURSIVE SumAmounts(_)
SumAmounts(mValues) ==
  IF mValues = <<>> THEN 0 ELSE Head(mValues)[2] + SumAmounts(Tail(mValues))
\* Scalar groups come before vector groups, each kind in ascending order of
\* the width.
GroupsOrdered(groups) ==
  \A i, j \in 1..Len(groups) :
    i < j =>
      /\ ~(groups[i].mStatDataType = "vector" /\ groups[j].mStatDataType = "value")
      /\ groups[i].mStatDataType = groups[j].mStatDataType
           => WidthOf(groups[i]) <= WidthOf(groups[j])
\* Every label of the items has one group of the kind of the items, no
\* group has another label, and the amounts of a group sum to the number of
\* the items with its label.
GroupsCount(groups, labelsOfItems, kind) ==
  /\ \A g \in 1..Len(groups) :
        /\ groups[g].mStatDataType = kind
        /\ \E k \in 1..Len(labelsOfItems) : labelsOfItems[k] = groups[g].mLabel
        /\ SumAmounts(groups[g].mValues)
             = Cardinality({k \in 1..Len(labelsOfItems) :
                              labelsOfItems[k] = groups[g].mLabel})
  /\ \A k \in 1..Len(labelsOfItems) :
        Cardinality({g \in 1..Len(groups) :
                       groups[g].mLabel = labelsOfItems[k]}) = 1
\* the labels of the records of the file for the frame and type of the call
FrameLabels ==
  LET recs == RecordsIn(chartCall.typeID, chartCall.frame, chartCall.frame)
  IN [k \in 1..Len(recs) |-> LabelOfRec(recs[k])]
\* the labels of the items of the list that getData has handed over
ListLabels == [k \in 1..Len(hist.data) |-> LabelOf(hist.data[k].w, hist.data[k].h)]

\* C23 as stated: the list sortAndCategorizeData returns has the scalar
\* groups in ascending order of the width, then the vector groups in
\* ascending order of the width; every label of the records of the frame
\* has one group, and the amounts of a group sum to the number of the
\* records of the frame with its label. Stated for files whose lines all
\* end with a newline.
C23_GroupsOrderedAndCounted ==
  (FrameCategorized /\ AllTerminated) =>
    /\ GroupsOrdered(chartCall.resultData)
    /\ GroupsCount(chartCall.resultData, FrameLabels, KindOfType(chartCall.typeID))

\* Lines 166-267 for a buffer that holds the whole file: every line that
\* ends with a newline and is not empty is processed with the offset of its
\* first byte, up to a throw.
RECURSIVE OneChunk(_, _)
OneChunk(st, lines) ==
  IF lines = <<>> \/ st.outcome # "ok" THEN st
  ELSE LET l == Head(lines)
       IN IF ~l.term \/ l.text = <<>>
          THEN OneChunk(st, Tail(lines))
          ELSE OneChunk(ProcessLineOn(st, l.start, parseCSVLine(l.text, ";")),
                        Tail(lines))
\* the members and locals as the pass finds them, and what the pass over
\* the whole file in one chunk makes of them
PassStart(bytes) ==
  [outcome |-> "ok", lastPOC |-> INT_INVALID, lastType |-> INT_INVALID,
   sortingFixed |-> FALSE, index |-> EmptyMap, sorted |-> FALSE, maxPOC |-> 0,
   progress |-> <<0, 1>>, error |-> NoError, fileSize |-> Len(bytes)]
InOneChunk(bytes) == OneChunk(PassStart(bytes), LinesFrom(bytes, 0))

\* The pass of the constructor is over.
FirstPassDone == pass[1].pc = "done" /\ ~crashed
\* What the pass left is what one chunk gives.
SameAsInOneChunk ==
  FirstPassDone =>
    \E whole \in {InOneChunk(fileBytes)} :
      /\ pocTypeStartList = whole.index
      /\ fileSortedByPOC = whole.sorted
      /\ maxPOC = whole.maxPOC
      /\ parsingError = whole.error
      /\ (whole.outcome = "ok") = (startEndFrame = <<0, whole.maxPOC>>)
\* A step from one chunk to the next: the end of the for loop and the
\* reading of the next chunk.
ChunkBoundaryStep ==
  /\ pass[1].pc \in {"loop", "scan"}
  /\ pass'[1].pc \in {"loop", "scan"}
  /\ pass'[1].pc # pass[1].pc
LocalsCarriedOver ==
  ChunkBoundaryStep =>
    /\ pass'[1].lastPOC = pass[1].lastPOC
    /\ pass'[1].lastType = pass[1].lastType
    /\ pass'[1].sortingFixed = pass[1].sortingFixed
    /\ pass'[1].lineBuffer = pass[1].lineBuffer
    /\ pass'[1].lineBufferStartPos = pass[1].lineBufferStartPos

\* C31: for every size of the buffer, the index, the layout flag, maxPOC
\* and the error that a complete pass leaves are those of a pass that reads
\* the whole file in one chunk, with the offsets of the first bytes of the
\* lines; lastPOC, lastType and sortingFixed, and the part of a line read
\* so far, are the same after a chunk boundary as before it.
C31_ChunkSizeIndependent ==
  /\ []SameAsInOneChunk
  /\ [][LocalsCarriedOver]_vars

\* A data line that lies across a chunk boundary is the first of its pair
\* and has been indexed with its offset, by a pass of more than one chunk.
SplitLines ==
  {k \in 1..Len(DataRecs) :
     /\ DataRecs[k].term
     /\ \E b \in 1..Len(fileBytes) :
          /\ b % parsingBufferSize = 0
          /\ DataRecs[k].start < b /\ b < LineEnd(DataRecs[k].start) - 1}
C31_Witness ==
  /\ FirstPassDone
  /\ parsingError = NoError
  /\ parsingBufferSize < Len(fileBytes)
  /\ \E k \in SplitLines :
       /\ HasEntry(pocTypeStartList, DataRecs[k].poc, DataRecs[k].type)
       /\ pocTypeStartList[DataRecs[k].poc][DataRecs[k].type] = DataRecs[k].start
       /\ DataRecs[k].start > 0

\* The last line of the file is a data line without a newline behind it.
LastLineOpen ==
  /\ DataRecs # <<>>
  /\ ~DataRecs[Len(DataRecs)].term
\* What the pass makes of the file when its last line is closed by a newline.
WithLastLineClosed == InOneChunk(fileBytes \o <<NL>>)

\* C32: when the last line of the file is a data line without a newline,
\* the complete pass leaves the index and the error that it leaves for the
\* same file with that line closed by a newline: the line is indexed with
\* its offset when it is the first of its (POC, typeID) pair, and a break of
\* the layout on that line is reported.
C32_LastLineLikeOthers ==
  (FirstPassDone /\ LastLineOpen) =>
    \E closed \in {WithLastLineClosed} :
      /\ pocTypeStartList = closed.index
      /\ parsingError = closed.error

\* readHeaderFromFile has returned.
HeaderReturned == mpc # "header" /\ ~crashed
\* The type records the reader has read: the lines before its file position
\* whose second field is "type".
TypeRecordsRead ==
  LET lines == LinesFrom(fileBytes, 0)
  IN {parseCSVLine(lines[k].text, ";") :
        k \in {n \in 1..Len(lines) :
                 /\ lines[n].start < filePos
                 /\ Field(parseCSVLine(lines[n].text, ";"), 1) = W_type}}
\* The type of a type record is in the registry.
IsRegistered(rowItemList) ==
  \E k \in 1..Len(statsTypeList) :
    /\ statsTypeList[k].typeID = toInt(Field(rowItemList, 2))
    /\ statsTypeList[k].typeName = Field(rowItemList, 3)

\* C33: when readHeaderFromFile has returned no type is left open, and the
\* type of every type record it has read is in the registry, the type of the
\* last type record included when the file ends behind it.
C33_EveryDeclaredTypeRegistered ==
  HeaderReturned =>
    /\ typeParsingActive = FALSE
    /\ \A rowItemList \in TypeRecordsRead : IsRegistered(rowItemList)

\* A call for a pair of the index that was made while the pass was running
\* has returned, and the pass has run to its end without error since.
LoadedDuringPass ==
  /\ PassOver /\ parsingError = NoError /\ ~crashed
  /\ nLoads > 0 /\ lpc = "idle"
  /\ hist.duringPass /\ ~hist.loadedAbsent

\* C34: a call of loadStatisticToCache for a pair of the index that runs
\* while the pass is in progress reads the lines that the call reads after
\* the pass: from the start to the stop that the complete index and the
\* layout the pass has found give, and every data line between them.
C34_LoadDuringPassAsAfter ==
  LoadedDuringPass =>
    /\ hist.loadStart = ExpectedStart
    /\ hist.stopLine = ExpectedStop(ExpectedStart)
    /\ hist.decoded = LinesBetween(ExpectedStart, ExpectedStop(ExpectedStart))

\* C35: no iteration of the loader reads a field that the record does not
\* have, and none goes on to lines 554-571 with a typeID that the registry
\* does not hold: a record of fewer than 7 or of 9 fields and a record of an
\* unregistered type are skipped or reported.
C35_LoaderChecksRecords ==
  /\ ~hist.readBeyond
  /\ ~hist.typeMissing

====
